---------------------------- MODULE Spec2Model ----------------------------
(***************************************************************************)
(* The three-stage pipeline of q3 (fetcher/fetch.py, processor/process.py, *)
(* analyzer/analyze.py): three single-threaded processes that share        *)
(* nothing but the directory tree under /shared and meet through the       *)
(* existence of marker files.                                              *)
(*                                                                         *)
(* The file system is modelled at the granularity of the system calls the  *)
(* stages make: open(path, "w") creates (or truncates) the file under its  *)
(* final name, the following write/json.dump fills it, so a file is        *)
(* "absent", "partial" or "complete".  os.path.exists is true of a partial *)
(* file.                                                                   *)
(*                                                                         *)
(* Faults of the environment: every call inside a per-item try block may   *)
(* raise (urlopen/read, open and write of an artifact or a document, the   *)
(* read of a raw file); the os.makedirs calls of the fetch stage may raise *)
(* (spec 4.2 names this fatal mode).  Writes of the manifests and of the   *)
(* report, and the makedirs calls of the two downstream stages, are taken  *)
(* to succeed.  Payloads are opaque: a manifest entry keeps url, file,     *)
(* status and error, not the byte size or the timestamps.                  *)
(***************************************************************************)
EXTENDS Integers, Sequences, FiniteSets, TLC

(***************************************************************************)
(* Bounds of the model.                                                    *)
(***************************************************************************)
\* lines of urls.txt
MaxLines == 2

\* the longest token list given to a function of the analyzer
MaxTokens == 3

\* the most documents given to the ranking of the analyzer
MaxDocs == 2

\* the most documents of a corpus of short documents
MaxPairDocs == 4

\* the number of different words of the long document
LongLen == 102

\* the most pieces of a raw content
MaxFragments == 3

\* the most pieces of a content given to remove_tag_block
MaxBlockPieces == 4

(***************************************************************************)
(* File names.  A name "page_<stem>.<ext>" is the pair <<stem, ext>>; the  *)
(* text before the last dot is opaque, the extension is what the code      *)
(* inspects.  None is the empty tuple.                                     *)
(***************************************************************************)
Stems == 1..MaxLines

RawExts == {"HTML", "html", "txt"}

DocExts == {"json", "tmp"}

RawNames == Stems \X RawExts

DocNames == Stems \X DocExts

None == <<>>

FileStates == {"absent", "partial", "complete"}

Name(s, e) == <<s, e>>

Stem(name) == name[1]

Ext(name) == name[2]

\* str.lower() on the extension
Lower(e) == IF e = "HTML" THEN "html" ELSE e

\* mutant: the suffix is not looked at
EndsWith_Any(name, suffix) == TRUE

\* name.lower().endswith(suffix)
EndsWith(name, suffix) == Lower(Ext(name)) = suffix

\* rank of an extension in str comparison: 'H' < 'h' < 'j' < 't'
ExtRank(e) ==
    CASE e = "HTML" -> 0
      [] e = "html" -> 1
      [] e = "json" -> 2
      [] OTHER      -> 3

\* str.__lt__ on two names "page_<stem>.<ext>" with one-digit stems
NameLess(a, b) ==
    \/ Stem(a) < Stem(b)
    \/ Stem(a) = Stem(b) /\ ExtRank(Ext(a)) < ExtRank(Ext(b))

\* mutant: the listing sorted the other way round
RECURSIVE SortNames_Descending(_)
SortNames_Descending(S) ==
    IF S = {} THEN <<>>
    ELSE LET m == CHOOSE x \in S : \A y \in S \ {x} : NameLess(y, x)
         IN  <<m>> \o SortNames_Descending(S \ {m})

\* list.sort() of a listing
RECURSIVE SortNames(_)
SortNames(S) ==
    IF S = {} THEN <<>>
    ELSE LET m == CHOOSE x \in S : \A y \in S \ {x} : NameLess(x, y)
         IN  <<m>> \o SortNames(S \ {m})

\* os.listdir filtered by suffix and sorted
Listing(dir, suffix) ==
    SortNames({n \in DOMAIN dir : dir[n] # "absent" /\ EndsWith(n, suffix)})

Range(s) == {s[k] : k \in 1..Len(s)}

(***************************************************************************)
(* urls.txt: a line is a sequence of characters.                           *)
(***************************************************************************)
Whitespace == {" ", "\n"}

InputLines == { <<" ", "\n">>, <<"a", "\n">>, <<" ", "b">> }

RECURSIVE LStrip(_)
LStrip(s) ==
    IF s # <<>> /\ Head(s) \in Whitespace THEN LStrip(Tail(s)) ELSE s

RECURSIVE RStrip(_)
RStrip(s) ==
    IF s # <<>> /\ s[Len(s)] \in Whitespace
    THEN RStrip(SubSeq(s, 1, Len(s) - 1)) ELSE s

\* str.strip()
Strip(s) == RStrip(LStrip(s))

\* the loop of fetch.py that keeps the non-blank stripped lines
RECURSIVE ReadUrls(_)
ReadUrls(lines) ==
    IF lines = <<>> THEN <<>>
    ELSE LET line == Strip(Head(lines))
         IN  (IF line # <<>> THEN <<line>> ELSE <<>>) \o ReadUrls(Tail(lines))

RECURSIVE SeqsUpTo(_, _)
SeqsUpTo(S, n) ==
    IF n = 0 THEN {<<>>}
    ELSE LET shorter == SeqsUpTo(S, n - 1)
         IN  shorter \cup {Append(s, x) : s \in shorter, x \in S}

InputFiles == SeqsUpTo(InputLines, MaxLines)

(***************************************************************************)
(* State.                                                                  *)
(***************************************************************************)
VARIABLES
    \* the shared area
    input_file,         \* /shared/input/urls.txt: [exists, lines]
    dirs,               \* the directories that exist under /shared
    raw,                \* /shared/raw: RawNames -> FileStates
    fetch_complete,     \* /shared/status/fetch_complete.json: [state, status]
    processed,          \* /shared/processed: DocNames -> FileStates
    process_complete,   \* /shared/status/process_complete.json
    final_report,       \* /shared/analysis/final_report.json
    \* fetcher
    fpc, urls, index, f_results, success_count, fail_count, f_exit,
    \* processor
    ppc, raw_files, p_i, p_results, ok, bad, p_exit,
    \* analyzer
    apc, files, a_i, docs, a_exit,
    \* history
    emptyStart,         \* the shared area was empty when the stages started
    attempts,           \* the page numbers urlopen was called for, in call order
    p_observed,         \* state of fetch_complete.json when the processor's wait ended
    a_observed,         \* state of process_complete.json when the analyzer's wait ended
    \* one call of a function of the stages, outside any run of the pipeline
    call                \* [fn, the arguments by name, done, ret]

areaVars == <<input_file, dirs, raw, fetch_complete, processed,
              process_complete, final_report>>

fetchVars == <<fpc, urls, index, f_results, success_count, fail_count, f_exit,
               attempts>>

procVars == <<ppc, raw_files, p_i, p_results, ok, bad, p_exit, p_observed>>

anaVars == <<apc, files, a_i, docs, a_exit, a_observed>>

pureVars == <<call>>

vars == <<areaVars, fetchVars, procVars, anaVars, emptyStart, pureVars>>

(***************************************************************************)
(* A file opened with mode "w" and not yet filled, and a file whose        *)
(* json.dump has completed.                                                *)
(***************************************************************************)
Absent == [state |-> "absent"]

Opened == [state |-> "partial"]

Dumped(obj) == [state |-> "complete", status |-> obj]

Exists(file) == file.state # "absent"

(***************************************************************************)
(* The runs of the model.  A pipeline run starts the three stages on an    *)
(* empty shared area.  A rerun starts the downstream stages on what an     *)
(* earlier run or an operator left there: extract and analyze on a fetch   *)
(* manifest with or without the raw directory, analyze alone on an extract *)
(* manifest with or without the structured-document directory.             *)
(***************************************************************************)
NoRaw == [n \in RawNames |-> "absent"]

NoDocs == [n \in DocNames |-> "absent"]

\* an earlier run's manifest; no stage reads its content
OldManifest == Dumped([timestamp |-> "earlier"])

\* a fetch manifest that is not about the directory beside it: its one entry
\* names page_2.html, whatever the raw directory holds
StaleFetchManifest ==
    Dumped([timestamp |-> "earlier",
            results |-> <<[url |-> <<"a">>, file |-> Name(2, "html"),
                           status |-> "success"]>>])

\* an extract manifest that is not about the directory beside it
StaleExtractManifest ==
    Dumped([timestamp |-> "earlier",
            results |-> <<[source_file |-> Name(2, "html"),
                           output_file |-> Name(2, "tmp"),
                           status |-> "success"]>>])

FetchManifests == {OldManifest, StaleFetchManifest}

ExtractManifests == {OldManifest, StaleExtractManifest}

RawLeftovers ==
    { NoRaw,
      [NoRaw EXCEPT ![Name(1, "txt")] = "complete"],
      [NoRaw EXCEPT ![Name(1, "html")] = "complete", ![Name(2, "html")] = "complete"],
      [NoRaw EXCEPT ![Name(1, "HTML")] = "complete", ![Name(1, "html")] = "complete"] }

DocLeftovers ==
    { NoDocs,
      [NoDocs EXCEPT ![Name(1, "json")] = "complete", ![Name(1, "tmp")] = "complete"],
      [NoDocs EXCEPT ![Name(1, "json")] = "complete", ![Name(2, "json")] = "partial"] }

EmptyArea ==
    [dirs |-> {}, raw |-> NoRaw, fetch_complete |-> Absent,
     processed |-> NoDocs, process_complete |-> Absent,
     started |-> {"fetch", "extract", "analyze"}]

FetchedAreas ==
    { [EmptyArea EXCEPT !.dirs = {"status"}, !.fetch_complete = m,
                        !.started = {"extract", "analyze"}] :
      m \in FetchManifests }
    \cup
    { [EmptyArea EXCEPT !.dirs = {"status", "raw"}, !.fetch_complete = rm[2],
                        !.raw = rm[1], !.started = {"extract", "analyze"}] :
      rm \in RawLeftovers \X FetchManifests }

ExtractedAreas ==
    { [EmptyArea EXCEPT !.dirs = {"status"}, !.process_complete = m,
                        !.started = {"analyze"}] :
      m \in ExtractManifests }
    \cup
    { [EmptyArea EXCEPT !.dirs = {"status", "processed"},
                        !.process_complete = dm[2],
                        !.processed = dm[1], !.started = {"analyze"}] :
      dm \in DocLeftovers \X ExtractManifests }

StartAreas == {EmptyArea} \cup FetchedAreas \cup ExtractedAreas

\* the stages of area.started are at the top of main() on the area
StartFrom(area) ==
    /\ dirs = area.dirs
    /\ raw = area.raw
    /\ fetch_complete = area.fetch_complete
    /\ processed = area.processed
    /\ process_complete = area.process_complete
    /\ emptyStart = (area = EmptyArea)
    /\ fpc = IF "fetch" \in area.started THEN "wait" ELSE "off"
    /\ ppc = IF "extract" \in area.started THEN "wait" ELSE "off"
    /\ apc = IF "analyze" \in area.started THEN "wait" ELSE "off"
    /\ input_file = [exists |-> FALSE, lines |-> <<>>]
    /\ final_report = Absent
    /\ urls = <<>> /\ index = 0 /\ f_results = <<>>
    /\ success_count = 0 /\ fail_count = 0 /\ f_exit = -1
    /\ raw_files = <<>> /\ p_i = 0 /\ p_results = <<>>
    /\ ok = 0 /\ bad = 0 /\ p_exit = -1
    /\ files = <<>> /\ a_i = 0 /\ docs = <<>> /\ a_exit = -1
    /\ attempts = <<>>
    /\ p_observed = "none" /\ a_observed = "none"

NoCall == [fn |-> "none", done |-> TRUE]

Init ==
    /\ \E area \in StartAreas : StartFrom(area)
    /\ call = NoCall

\* no stage runs: the state around a single function call
NoStage == StartFrom([EmptyArea EXCEPT !.started = {}])

pipelineVars == <<areaVars, fetchVars, procVars, anaVars, emptyStart>>

(***************************************************************************)
(* The operator of the pipeline drops urls.txt into /shared/input.         *)
(***************************************************************************)
\* (only a run that started the fetch stage is given one)
WriteInput ==
    /\ fpc = "wait"
    /\ ~input_file.exists
    /\ \E lines \in InputFiles :
          input_file' = [exists |-> TRUE, lines |-> lines]
    /\ UNCHANGED <<dirs, raw, fetch_complete, processed, process_complete,
                   final_report, fetchVars, procVars, anaVars, emptyStart, pureVars>>

(***************************************************************************)
(* Fetch stage: fetch.py main().                                           *)
(***************************************************************************)
\* lines 15-29: the wait loop on urls.txt, then the read of the urls
FetchWait ==
    /\ fpc = "wait"
    /\ input_file.exists
    /\ urls' = ReadUrls(input_file.lines)
    /\ fpc' = "mkdir_raw"
    /\ UNCHANGED <<areaVars, index, f_results, success_count, fail_count,
                   f_exit, attempts, procVars, anaVars, emptyStart, pureVars>>

\* an exception that leaves main(): the interpreter exits with code 1
FetchCrash ==
    /\ fpc' = "crashed"
    /\ f_exit' = 1
    /\ UNCHANGED <<areaVars, urls, index, f_results, success_count, fail_count,
                   attempts, procVars, anaVars, emptyStart, pureVars>>

\* mutant: the raw directory is not created
FetchMakeRaw_NoDir ==
    /\ fpc = "mkdir_raw"
    /\ fpc' = "mkdir_status"
    /\ UNCHANGED <<areaVars, urls, index, f_results, success_count, fail_count,
                   f_exit, attempts, procVars, anaVars, emptyStart, pureVars>>

\* line 31: os.makedirs("/shared/raw", exist_ok=True)
FetchMakeRaw ==
    /\ fpc = "mkdir_raw"
    /\ \/ /\ dirs' = dirs \cup {"raw"}
          /\ fpc' = "mkdir_status"
          /\ UNCHANGED <<input_file, raw, fetch_complete, processed,
                         process_complete, final_report, urls, index, f_results,
                         success_count, fail_count, f_exit, attempts, procVars,
                         anaVars, emptyStart, pureVars>>
       \/ FetchCrash

\* line 32: os.makedirs("/shared/status", exist_ok=True)
FetchMakeStatus ==
    /\ fpc = "mkdir_status"
    /\ \/ /\ dirs' = dirs \cup {"status"}
          /\ fpc' = "loop"
          /\ UNCHANGED <<input_file, raw, fetch_complete, processed,
                         process_complete, final_report, urls, index, f_results,
                         success_count, fail_count, f_exit, attempts, procVars,
                         anaVars, emptyStart, pureVars>>
       \/ FetchCrash

\* line 42
output_file == Name(index + 1, "html")

\* lines 52-59 and 71-72: the success entry, then the next url
FetchRecordSuccess ==
    /\ f_results' = Append(f_results,
           [url |-> urls[index + 1], file |-> output_file, status |-> "success"])
    /\ success_count' = success_count + 1
    /\ UNCHANGED fail_count
    /\ index' = index + 1
    /\ fpc' = "loop"

\* mutant: the first failure ends the loop
FetchRecordFailure_Abort(e) ==
    /\ f_results' = Append(f_results,
           [url |-> urls[index + 1], file |-> None, error |-> e,
            status |-> "failed"])
    /\ fail_count' = fail_count + 1
    /\ UNCHANGED success_count
    /\ index' = Len(urls)
    /\ fpc' = "loop"

\* mutant: a failed url leaves no entry and is not counted
FetchRecordFailure_Unrecorded(e) ==
    /\ UNCHANGED <<f_results, fail_count, success_count>>
    /\ index' = index + 1
    /\ fpc' = "loop"

\* lines 61-72: the except branch, then the next url
FetchRecordFailure(e) ==
    /\ f_results' = Append(f_results,
           [url |-> urls[index + 1], file |-> None, error |-> e,
            status |-> "failed"])
    /\ fail_count' = fail_count + 1
    /\ UNCHANGED success_count
    /\ index' = index + 1
    /\ fpc' = "loop"

\* lines 39-47: the loop test, urlopen and read of the next url
FetchRequest ==
    /\ fpc = "loop"
    /\ index < Len(urls)
    /\ attempts' = Append(attempts, index + 1)
    /\ \/ /\ fpc' = "open_output"
          /\ UNCHANGED <<index, f_results, success_count, fail_count>>
       \/ FetchRecordFailure("urlopen")
    /\ UNCHANGED <<areaVars, urls, f_exit, procVars, anaVars, emptyStart, pureVars>>

\* line 49: open(output_file, "wb")
FetchOpenOutput ==
    /\ fpc = "open_output"
    /\ \/ /\ "raw" \in dirs
          /\ raw' = [raw EXCEPT ![output_file] = "partial"]
          /\ fpc' = "write_output"
          /\ UNCHANGED <<index, f_results, success_count, fail_count>>
       \/ /\ FetchRecordFailure("open")
          /\ UNCHANGED raw
    /\ UNCHANGED <<input_file, dirs, fetch_complete, processed, process_complete,
                   final_report, urls, f_exit, attempts, procVars, anaVars,
                   emptyStart, pureVars>>

\* lines 50-59: f.write(content) and the success entry
FetchWriteOutput ==
    /\ fpc = "write_output"
    /\ \/ /\ raw' = [raw EXCEPT ![output_file] = "complete"]
          /\ FetchRecordSuccess
       \/ /\ FetchRecordFailure("write")
          /\ UNCHANGED raw
    /\ UNCHANGED <<input_file, dirs, fetch_complete, processed, process_complete,
                   final_report, urls, f_exit, attempts, procVars, anaVars,
                   emptyStart, pureVars>>

\* lines 75-80
FetchStatus ==
    [urls_processed |-> Len(urls), successful |-> success_count,
     failed |-> fail_count, results |-> f_results]

\* mutant: the marker is opened although urls are left
FetchOpenManifest_Early ==
    /\ fpc = "loop"
    /\ fetch_complete' = Opened
    /\ fpc' = "dump_manifest"
    /\ UNCHANGED <<input_file, dirs, raw, processed, process_complete,
                   final_report, urls, index, f_results, success_count,
                   fail_count, f_exit, attempts, procVars, anaVars, emptyStart, pureVars>>

\* lines 39 and 82: the loop ends, open("/shared/status/fetch_complete.json", "w")
FetchOpenManifest ==
    /\ fpc = "loop"
    /\ ~(index < Len(urls))
    /\ fetch_complete' = Opened
    /\ fpc' = "dump_manifest"
    /\ UNCHANGED <<input_file, dirs, raw, processed, process_complete,
                   final_report, urls, index, f_results, success_count,
                   fail_count, f_exit, attempts, procVars, anaVars, emptyStart, pureVars>>

\* lines 83-85: json.dump(status, f), the file is closed, main() returns
FetchDumpManifest ==
    /\ fpc = "dump_manifest"
    /\ fetch_complete' = Dumped(FetchStatus)
    /\ fpc' = "done"
    /\ f_exit' = 0
    /\ UNCHANGED <<input_file, dirs, raw, processed, process_complete,
                   final_report, urls, index, f_results, success_count,
                   fail_count, attempts, procVars, anaVars, emptyStart, pureVars>>

FetchNext ==
    \/ FetchWait
    \/ FetchMakeRaw
    \/ FetchMakeStatus
    \/ FetchRequest
    \/ FetchOpenOutput
    \/ FetchWriteOutput
    \/ FetchOpenManifest
    \/ FetchDumpManifest

(***************************************************************************)
(* Extract stage: process.py main().                                       *)
(***************************************************************************)
\* mutant: the processor does not wait for the marker
ProcWait_NoWait ==
    /\ ppc = "wait"
    /\ ppc' = "mkdirs"
    /\ p_observed' = fetch_complete.state
    /\ UNCHANGED <<areaVars, raw_files, p_i, p_results, ok, bad, p_exit,
                   fetchVars, anaVars, emptyStart, pureVars>>

\* lines 148-150: the wait loop ends when fetch_complete.json exists
ProcWait ==
    /\ ppc = "wait"
    /\ Exists(fetch_complete)
    /\ ppc' = "mkdirs"
    /\ p_observed' = fetch_complete.state
    /\ UNCHANGED <<areaVars, raw_files, p_i, p_results, ok, bad, p_exit,
                   fetchVars, anaVars, emptyStart, pureVars>>

\* lines 152-153: os.makedirs of PROCESSED_DIR and STATUS_DIR
ProcMakeDirs ==
    /\ ppc = "mkdirs"
    /\ dirs' = dirs \cup {"processed", "status"}
    /\ ppc' = "check_raw"
    /\ UNCHANGED <<input_file, raw, fetch_complete, processed, process_complete,
                   final_report, raw_files, p_i, p_results, ok, bad, p_exit,
                   p_observed, fetchVars, anaVars, emptyStart, pureVars>>

\* mutant: the fatal branch returns 1 without writing the manifest
ProcCheckRaw_SilentFatal ==
    /\ ppc = "check_raw"
    /\ ppc' = IF "raw" \notin dirs THEN "done" ELSE "scan"
    /\ p_exit' = IF "raw" \notin dirs THEN 1 ELSE p_exit
    /\ UNCHANGED <<areaVars, raw_files, p_i, p_results, ok, bad,
                   p_observed, fetchVars, anaVars, emptyStart, pureVars>>

\* line 155: os.path.exists(RAW_DIR)
ProcCheckRaw ==
    /\ ppc = "check_raw"
    /\ ppc' = IF "raw" \notin dirs THEN "open_fatal" ELSE "scan"
    /\ UNCHANGED <<areaVars, raw_files, p_i, p_results, ok, bad, p_exit,
                   p_observed, fetchVars, anaVars, emptyStart, pureVars>>

\* lines 158-165
ProcFatalStatus ==
    [status |-> "failed", error |-> "Missing raw dir", files_processed |-> 0,
     successful |-> 0, failed |-> 0, results |-> <<>>]

\* lines 167 and 43: write_json(PROCESS_DONE, status) opens the file
ProcOpenFatal ==
    /\ ppc = "open_fatal"
    /\ process_complete' = Opened
    /\ ppc' = "dump_fatal"
    /\ UNCHANGED <<input_file, dirs, raw, fetch_complete, processed,
                   final_report, raw_files, p_i, p_results, ok, bad, p_exit,
                   p_observed, fetchVars, anaVars, emptyStart, pureVars>>

\* mutant: the fatal branch returns 0
ProcDumpFatal_ReturnZero ==
    /\ ppc = "dump_fatal"
    /\ process_complete' = Dumped(ProcFatalStatus)
    /\ ppc' = "done"
    /\ p_exit' = 0
    /\ UNCHANGED <<input_file, dirs, raw, fetch_complete, processed,
                   final_report, raw_files, p_i, p_results, ok, bad,
                   p_observed, fetchVars, anaVars, emptyStart, pureVars>>

\* lines 44-45 and 168: json.dump, close, return 1
ProcDumpFatal ==
    /\ ppc = "dump_fatal"
    /\ process_complete' = Dumped(ProcFatalStatus)
    /\ ppc' = "done"
    /\ p_exit' = 1
    /\ UNCHANGED <<input_file, dirs, raw, fetch_complete, processed,
                   final_report, raw_files, p_i, p_results, ok, bad,
                   p_observed, fetchVars, anaVars, emptyStart, pureVars>>

\* mutant: the items are the files the fetch manifest reports as written
ProcScan_FromManifest ==
    /\ ppc = "scan"
    /\ raw_files' =
          IF /\ fetch_complete.state = "complete"
             /\ "results" \in DOMAIN fetch_complete.status
          THEN LET good == SelectSeq(fetch_complete.status.results,
                                     LAMBDA e : e.status = "success")
               IN  [k \in 1..Len(good) |-> good[k].file]
          ELSE <<>>
    /\ ppc' = "loop"
    /\ UNCHANGED <<areaVars, p_i, p_results, ok, bad, p_exit, p_observed,
                   fetchVars, anaVars, emptyStart, pureVars>>

\* lines 170-184: os.listdir(RAW_DIR), the .html filter, the sort
ProcScan ==
    /\ ppc = "scan"
    /\ raw_files' = Listing(raw, "html")
    /\ ppc' = "loop"
    /\ UNCHANGED <<areaVars, p_i, p_results, ok, bad, p_exit, p_observed,
                   fetchVars, anaVars, emptyStart, pureVars>>

\* line 188
fname == raw_files[p_i + 1]

\* lines 191-194: base = fname.rsplit(".", 1)[0]; out_path = base + ".json"
out_path == Name(Stem(fname), "json")

\* lines 201-207 and 219
ProcRecordSuccess ==
    /\ p_results' = Append(p_results,
           [source_file |-> fname, output_file |-> out_path,
            status |-> "success"])
    /\ ok' = ok + 1
    /\ UNCHANGED bad
    /\ p_i' = p_i + 1
    /\ ppc' = "loop"

\* lines 209-219
ProcRecordFailure(e) ==
    /\ p_results' = Append(p_results,
           [source_file |-> fname, output_file |-> None, status |-> "failed",
            error |-> e])
    /\ bad' = bad + 1
    /\ UNCHANGED ok
    /\ p_i' = p_i + 1
    /\ ppc' = "loop"

\* lines 187-198: the loop test and process_one_file(in_path)
ProcReadItem ==
    /\ ppc = "loop"
    /\ p_i < Len(raw_files)
    /\ \/ /\ raw[fname] # "absent"
          /\ ppc' = "open_doc"
          /\ UNCHANGED <<p_i, p_results, ok, bad>>
       \/ ProcRecordFailure("read")
    /\ UNCHANGED <<areaVars, raw_files, p_exit, p_observed, fetchVars, anaVars,
                   emptyStart, pureVars>>

\* lines 199 and 43: write_json(out_path, obj) opens the document
ProcOpenDoc ==
    /\ ppc = "open_doc"
    /\ \/ /\ "processed" \in dirs
          /\ processed' = [processed EXCEPT ![out_path] = "partial"]
          /\ ppc' = "dump_doc"
          /\ UNCHANGED <<p_i, p_results, ok, bad>>
       \/ /\ ProcRecordFailure("open")
          /\ UNCHANGED processed
    /\ UNCHANGED <<input_file, dirs, raw, fetch_complete, process_complete,
                   final_report, raw_files, p_exit, p_observed, fetchVars,
                   anaVars, emptyStart, pureVars>>

\* lines 44-45 and 201-207: json.dump, close, the success entry
ProcDumpDoc ==
    /\ ppc = "dump_doc"
    /\ \/ /\ processed' = [processed EXCEPT ![out_path] = "complete"]
          /\ ProcRecordSuccess
       \/ /\ ProcRecordFailure("write")
          /\ UNCHANGED processed
    /\ UNCHANGED <<input_file, dirs, raw, fetch_complete, process_complete,
                   final_report, raw_files, p_exit, p_observed, fetchVars,
                   anaVars, emptyStart, pureVars>>

\* lines 221-226
ProcStatus ==
    [files_processed |-> Len(raw_files), successful |-> ok, failed |-> bad,
     results |-> p_results]

\* mutant: PROCESS_DONE names the fetch manifest
ProcOpenManifest_WrongPath ==
    /\ ppc = "loop"
    /\ ~(p_i < Len(raw_files))
    /\ fetch_complete' = Opened
    /\ process_complete' = Opened
    /\ ppc' = "dump_manifest"
    /\ UNCHANGED <<input_file, dirs, raw, processed,
                   final_report, raw_files, p_i, p_results, ok, bad, p_exit,
                   p_observed, fetchVars, anaVars, emptyStart, pureVars>>

\* lines 187, 228 and 43: the loop ends, write_json(PROCESS_DONE, status) opens
ProcOpenManifest ==
    /\ ppc = "loop"
    /\ ~(p_i < Len(raw_files))
    /\ process_complete' = Opened
    /\ ppc' = "dump_manifest"
    /\ UNCHANGED <<input_file, dirs, raw, fetch_complete, processed,
                   final_report, raw_files, p_i, p_results, ok, bad, p_exit,
                   p_observed, fetchVars, anaVars, emptyStart, pureVars>>

\* mutant: a failed item turns the exit code to 1
ProcDumpManifest_FailOnBad ==
    /\ ppc = "dump_manifest"
    /\ process_complete' = Dumped(ProcStatus)
    /\ ppc' = "done"
    /\ p_exit' = IF bad > 0 THEN 1 ELSE 0
    /\ UNCHANGED <<input_file, dirs, raw, fetch_complete, processed,
                   final_report, raw_files, p_i, p_results, ok, bad,
                   p_observed, fetchVars, anaVars, emptyStart, pureVars>>

\* lines 44-45 and 229-230: json.dump, close, return 0
ProcDumpManifest ==
    /\ ppc = "dump_manifest"
    /\ process_complete' = Dumped(ProcStatus)
    /\ ppc' = "done"
    /\ p_exit' = 0
    /\ UNCHANGED <<input_file, dirs, raw, fetch_complete, processed,
                   final_report, raw_files, p_i, p_results, ok, bad,
                   p_observed, fetchVars, anaVars, emptyStart, pureVars>>

ProcNext ==
    \/ ProcWait
    \/ ProcMakeDirs
    \/ ProcCheckRaw
    \/ ProcOpenFatal
    \/ ProcDumpFatal
    \/ ProcScan
    \/ ProcReadItem
    \/ ProcOpenDoc
    \/ ProcDumpDoc
    \/ ProcOpenManifest
    \/ ProcDumpManifest

(***************************************************************************)
(* Analyze stage: analyze.py main().                                       *)
(***************************************************************************)
\* mutant: the analyzer polls the path of its own report
AnaWait_WrongMarker ==
    /\ apc = "wait"
    /\ Exists(final_report)
    /\ apc' = "mkdirs"
    /\ a_observed' = process_complete.state
    /\ UNCHANGED <<areaVars, files, a_i, docs, a_exit, fetchVars, procVars,
                   emptyStart, pureVars>>

\* mutant: the analyzer does not wait for the marker
AnaWait_NoWait ==
    /\ apc = "wait"
    /\ apc' = "mkdirs"
    /\ a_observed' = process_complete.state
    /\ UNCHANGED <<areaVars, files, a_i, docs, a_exit, fetchVars, procVars,
                   emptyStart, pureVars>>

\* lines 93-95: the wait loop ends when process_complete.json exists
AnaWait ==
    /\ apc = "wait"
    /\ Exists(process_complete)
    /\ apc' = "mkdirs"
    /\ a_observed' = process_complete.state
    /\ UNCHANGED <<areaVars, files, a_i, docs, a_exit, fetchVars, procVars,
                   emptyStart, pureVars>>

\* line 97: os.makedirs(ANALYSIS_DIR, exist_ok=True)
AnaMakeDirs ==
    /\ apc = "mkdirs"
    /\ dirs' = dirs \cup {"analysis"}
    /\ apc' = "check_processed"
    /\ UNCHANGED <<input_file, raw, fetch_complete, processed, process_complete,
                   final_report, files, a_i, docs, a_exit, a_observed,
                   fetchVars, procVars, emptyStart, pureVars>>

\* line 99: os.path.exists(PROCESSED_DIR)
AnaCheckProcessed ==
    /\ apc = "check_processed"
    /\ apc' = IF "processed" \notin dirs THEN "open_fatal" ELSE "scan"
    /\ UNCHANGED <<areaVars, files, a_i, docs, a_exit, a_observed, fetchVars,
                   procVars, emptyStart, pureVars>>

\* mutant: the fatal report carries no error field
AnaFatalReport_NoError ==
    [documents_processed |-> 0, total_words |-> 0, unique_words |-> 0,
     top_100_words |-> <<>>, document_similarity |-> <<>>,
     top_bigrams |-> <<>>, top_trigrams |-> <<>>,
     readability |-> [avg_sentence_length |-> 0, avg_word_length |-> 0,
                      complexity_score |-> 0]]

\* lines 100-115
AnaFatalReport ==
    [documents_processed |-> 0, total_words |-> 0, unique_words |-> 0,
     top_100_words |-> <<>>, document_similarity |-> <<>>,
     top_bigrams |-> <<>>, top_trigrams |-> <<>>,
     readability |-> [avg_sentence_length |-> 0, avg_word_length |-> 0,
                      complexity_score |-> 0],
     error |-> "Missing processed dir"]

\* lines 116 and 26: write_json(FINAL_REPORT, report) opens the file
AnaOpenFatal ==
    /\ apc = "open_fatal"
    /\ final_report' = Opened
    /\ apc' = "dump_fatal"
    /\ UNCHANGED <<input_file, dirs, raw, fetch_complete, processed,
                   process_complete, files, a_i, docs, a_exit, a_observed,
                   fetchVars, procVars, emptyStart, pureVars>>

\* lines 27 and 117: json.dump, close, return 1
AnaDumpFatal ==
    /\ apc = "dump_fatal"
    /\ final_report' = Dumped(AnaFatalReport)
    /\ apc' = "done"
    /\ a_exit' = 1
    /\ UNCHANGED <<input_file, dirs, raw, fetch_complete, processed,
                   process_complete, files, a_i, docs, a_observed,
                   fetchVars, procVars, emptyStart, pureVars>>

\* lines 119-123: os.listdir(PROCESSED_DIR), the .json filter, the sort
AnaScan ==
    /\ apc = "scan"
    /\ files' = Listing(processed, "json")
    /\ apc' = "loop"
    /\ UNCHANGED <<areaVars, a_i, docs, a_exit, a_observed, fetchVars,
                   procVars, emptyStart, pureVars>>

\* lines 138-183: one document: read_json raises on a file that holds no
\* complete JSON value (and may raise on any file), and the file is skipped;
\* otherwise the document joins docs
AnaReadItem ==
    /\ apc = "loop"
    /\ a_i < Len(files)
    /\ \/ /\ processed[files[a_i + 1]] = "complete"
          /\ docs' = Append(docs, files[a_i + 1])
       \/ UNCHANGED docs
    /\ a_i' = a_i + 1
    /\ UNCHANGED <<areaVars, apc, files, a_exit, a_observed, fetchVars,
                   procVars, emptyStart, pureVars>>

\* lines 205-217: one record per pair i < j of docs, row by row
RECURSIVE PairsFrom_SelfPairs(_, _, _)
PairsFrom_SelfPairs(d, i, j) ==
    IF i > Len(d) THEN <<>>
    ELSE IF j > Len(d) THEN PairsFrom_SelfPairs(d, i + 1, i + 1)
    ELSE <<[doc1 |-> d[i], doc2 |-> d[j]]>> \o PairsFrom_SelfPairs(d, i, j + 1)

\* lines 205-217: the pairs (i, j), j from i + 1 on, of the documents d
RECURSIVE PairsFrom(_, _, _)
PairsFrom(d, i, j) ==
    IF i > Len(d) THEN <<>>
    ELSE IF j > Len(d) THEN PairsFrom(d, i + 1, i + 2)
    ELSE <<[doc1 |-> d[i], doc2 |-> d[j]]>> \o PairsFrom(d, i, j + 1)

\* lines 249-263
AnaReport ==
    [documents_processed |-> Len(docs),
     document_similarity |-> PairsFrom(docs, 1, 2)]

\* mutant: the report is also written over the extract manifest
AnaOpenReport_OverManifest ==
    /\ apc = "loop"
    /\ ~(a_i < Len(files))
    /\ final_report' = Opened
    /\ process_complete' = Opened
    /\ apc' = "dump_report"
    /\ UNCHANGED <<input_file, dirs, raw, fetch_complete, processed,
                   files, a_i, docs, a_exit, a_observed,
                   fetchVars, procVars, emptyStart, pureVars>>

\* lines 138, 265 and 26: the loop ends, write_json(FINAL_REPORT, report) opens
AnaOpenReport ==
    /\ apc = "loop"
    /\ ~(a_i < Len(files))
    /\ final_report' = Opened
    /\ apc' = "dump_report"
    /\ UNCHANGED <<input_file, dirs, raw, fetch_complete, processed,
                   process_complete, files, a_i, docs, a_exit, a_observed,
                   fetchVars, procVars, emptyStart, pureVars>>

\* lines 27 and 266-267: json.dump, close, return 0
AnaDumpReport ==
    /\ apc = "dump_report"
    /\ final_report' = Dumped(AnaReport)
    /\ apc' = "done"
    /\ a_exit' = 0
    /\ UNCHANGED <<input_file, dirs, raw, fetch_complete, processed,
                   process_complete, files, a_i, docs, a_observed,
                   fetchVars, procVars, emptyStart, pureVars>>

AnaNext ==
    \/ AnaWait
    \/ AnaMakeDirs
    \/ AnaCheckProcessed
    \/ AnaOpenFatal
    \/ AnaDumpFatal
    \/ AnaScan
    \/ AnaReadItem
    \/ AnaOpenReport
    \/ AnaDumpReport

(***************************************************************************)
(* The pipeline: the stages run as independent processes.                  *)
(***************************************************************************)
Next == WriteInput \/ FetchNext \/ ProcNext \/ AnaNext

Spec == Init /\ [][Next]_vars

\* every running process is scheduled again and again; nothing obliges the
\* operator to ever provide urls.txt
FairSpec ==
    Spec /\ WF_vars(FetchNext) /\ WF_vars(ProcNext) /\ WF_vars(AnaNext)

(***************************************************************************)
(* Single calls of the functions of the stages.  No stage runs; `call'     *)
(* holds the arguments and, once the call has returned, the result.  A     *)
(* Python float that is the quotient of two small integers is kept as the  *)
(* fraction in lowest terms: two such quotients are the same float exactly *)
(* when they are the same fraction.                                        *)
(***************************************************************************)
RECURSIVE Gcd(_, _)
Gcd(p, q) == IF q = 0 THEN p ELSE Gcd(q, p % q)

\* float(p) / float(q), q > 0
Quotient(p, q) == [num |-> p \div Gcd(p, q), den |-> q \div Gcd(p, q)]

Zero == [num |-> 0, den |-> 1]

One == [num |-> 1, den |-> 1]

\* analyze.py: the similarity of two token lists
Tokens == {"a", "b", "c", "d"}

TokenLists == SeqsUpTo(Tokens, MaxTokens)

jaccard_similarity_OverFirst(doc1_words, doc2_words) ==
    LET set1 == Range(doc1_words)
        set2 == Range(doc2_words)
        intersection == set1 \cap set2
    IN  IF Cardinality(set1) > 0
        THEN Quotient(Cardinality(intersection), Cardinality(set1))
        ELSE Zero

jaccard_similarity(doc1_words, doc2_words) ==
    LET set1 == Range(doc1_words)
        set2 == Range(doc2_words)
        intersection == set1 \cap set2
        union == set1 \cup set2
    IN  IF Cardinality(union) > 0
        THEN Quotient(Cardinality(intersection), Cardinality(union))
        ELSE Zero

SimInit ==
    /\ NoStage
    /\ \E A \in TokenLists, B \in TokenLists :
          call = [fn |-> "jaccard_similarity", done |-> FALSE,
                  doc1_words |-> A, doc2_words |-> B]

SimCall ==
    /\ call.fn = "jaccard_similarity"
    /\ ~call.done
    /\ call' = [fn |-> call.fn, done |-> TRUE,
                doc1_words |-> call.doc1_words,
                doc2_words |-> call.doc2_words,
                ret |-> jaccard_similarity(call.doc1_words, call.doc2_words)]
    /\ UNCHANGED pipelineVars

SimNext == SimCall

SimSpec == SimInit /\ [][SimNext]_vars

(***************************************************************************)
(* analyze.py, main: the frequency maps and the ranked lists of the        *)
(* report, as a function of the token lists of the documents (the `words'  *)
(* of line 148, already lower-cased).  A word is the sequence of its       *)
(* characters; a dict is the sequence of its <<key, value>> items in       *)
(* insertion order, as Python keeps it.                                    *)
(***************************************************************************)
\* the order of the code points of the characters used
CharRank(c) ==
    CASE c = " " -> 32
      [] c = "a" -> 97
      [] c = "b" -> 98
      [] c = "c" -> 99

\* Python's s < t on strings
StrLess(s, t) ==
    \E k \in 1..Len(t) :
        /\ k - 1 <= Len(s)
        /\ \A j \in 1..(k - 1) : s[j] = t[j]
        /\ \/ k > Len(s)
           \/ CharRank(s[k]) < CharRank(t[k])

\* " ".join(ws)
RECURSIVE Join(_)
Join(ws) ==
    IF Len(ws) = 0 THEN <<>>
    ELSE IF Len(ws) = 1 THEN ws[1]
    ELSE ws[1] \o <<" ">> \o Join(Tail(ws))

HasKey(d, key) == \E k \in 1..Len(d) : d[k][1] = key

increment_count(d, key) ==
    IF HasKey(d, key)
    THEN [k \in 1..Len(d) |->
             IF d[k][1] = key THEN <<key, d[k][2] + 1>> ELSE d[k]]
    ELSE Append(d, <<key, 1>>)

\* the loops `while j < len(keys): increment_count(d, keys[j])' for the
\* keys from..to: the increments in their order, the first half of them
\* carried out before the second (the dict then holds a key)
RECURSIVE CountAll(_, _, _, _)
CountAll(d, keys, from, to) ==
    IF from > to THEN d
    ELSE IF from = to THEN increment_count(d, keys[from])
    ELSE LET mid == (from + to) \div 2
             half == CountAll(d, keys, from, mid)
         IN  IF Len(half) > 0 THEN CountAll(half, keys, mid + 1, to) ELSE half

build_ngrams_Apart(words, n) ==
    [i \in 1..(Len(words) \div n) |->
        Join(SubSeq(words, n * (i - 1) + 1, n * i))]

\* lines 62-68
build_ngrams(words, n) ==
    [i \in 1..(Len(words) - n + 1) |-> Join(SubSeq(words, i, i + n - 1))]

\* the sort key (-x[1], x[0]) of an item x = (term, count)
SortKeyLess_CountOnly(x, y) == x[2] > y[2]

SortKeyLess(x, y) ==
    \/ x[2] > y[2]
    \/ x[2] = y[2] /\ StrLess(x[1], y[1])

\* list.sort is stable: an item goes behind the items that are not after it
Insert(sorted, x) ==
    LET n == Cardinality({k \in 1..Len(sorted) : ~SortKeyLess(x, sorted[k])})
    IN  SubSeq(sorted, 1, n) \o <<x>> \o SubSeq(sorted, n + 1, Len(sorted))

\* the items from..to put one after the other into the sorted list
RECURSIVE InsertAll(_, _, _, _)
InsertAll(sorted, items, from, to) ==
    IF from > to THEN sorted
    ELSE IF from = to THEN Insert(sorted, items[from])
    ELSE LET mid == (from + to) \div 2
             half == InsertAll(sorted, items, from, mid)
         IN  IF Len(half) > 0 THEN InsertAll(half, items, mid + 1, to) ELSE half

\* items.sort(key=lambda x: (-x[1], x[0]))
SortItems(items) == InsertAll(<<>>, items, 1, Len(items))

Min(a, b) == IF a < b THEN a ELSE b

TopWords == 100

TopBigrams == 50

TopTrigrams == 50

\* lines 187-263, the fields of the report that come from the maps
RankReport(c) ==
    LET items == SortItems(c.global_freq)
        b_items == SortItems(c.bigram_freq)
        t_items == SortItems(c.trigram_freq)
    IN  [documents_processed |-> Len(c.docs),
         total_words |-> c.total_words,
         unique_words |-> Len(c.global_freq),
         top_100_words |->
            [k \in 1..Min(Len(items), TopWords) |->
                [word |-> items[k][1],
                 count |-> items[k][2],
                 frequency |-> IF c.total_words > 0
                               THEN Quotient(items[k][2], c.total_words)
                               ELSE Zero]],
         document_similarity |->
            [k \in 1..Len(PairsFrom(c.docs, 1, 2)) |->
                LET pair == PairsFrom(c.docs, 1, 2)[k]
                IN  [doc1 |-> pair.doc1.file, doc2 |-> pair.doc2.file,
                     similarity |->
                        jaccard_similarity(pair.doc1.words, pair.doc2.words)]],
         top_bigrams |->
            [k \in 1..Min(Len(b_items), TopBigrams) |->
                [bigram |-> b_items[k][1], count |-> b_items[k][2]]],
         top_trigrams |->
            [k \in 1..Min(Len(t_items), TopTrigrams) |->
                [trigram |-> t_items[k][1], count |-> t_items[k][2]]]]

\* the token lists the documents are drawn from
Vocabulary == {<<"a">>, <<"b">>, <<"a", "b">>}

ShortDocs == SeqsUpTo(Vocabulary, MaxTokens)

\* the i-th word over a, b, c (i >= 0), all different
RECURSIVE WordOf(_)
WordOf(i) ==
    LET letter == <<"a", "b", "c">>[(i % 3) + 1]
    IN  IF i < 3 THEN <<letter>> ELSE Append(WordOf(i \div 3), letter)

\* a document of more different words and n-grams than a list of the report
\* holds: LongLen different words from the last to the first, then three
\* words again
LongDoc ==
    [k \in 1..LongLen |-> WordOf(LongLen - k)]
        \o <<WordOf(0), WordOf(1), WordOf(1)>>

\* corpora of more documents, of few words each
PairDocs == {<<>>, <<<<"a">>>>, <<<<"a">>, <<"b">>>>}

ManyDocs == {c \in SeqsUpTo(PairDocs, MaxPairDocs) : Len(c) > MaxDocs}

Corpora ==
    SeqsUpTo(ShortDocs, MaxDocs) \cup {<<LongDoc>>, <<LongDoc, <<>>>>}
        \cup ManyDocs

\* the files of the listing by their place in it; texts[d] are the words of
\* file d, and the files of `broken' are the ones read_json or obj.get
\* raises on, which give no text
RankInit ==
    /\ NoStage
    /\ \E corpus \in Corpora :
          \E broken \in SUBSET {d \in 1..Len(corpus) : corpus[d] = <<>>} :
             call = [fn |-> "main", done |-> FALSE, texts |-> corpus,
                     broken |-> broken, i |-> 0,
                     docs |-> <<>>, global_freq |-> <<>>, total_words |-> 0,
                     bigram_freq |-> <<>>, trigram_freq |-> <<>>]

\* lines 138-183: one document that was read
RankCountDocument ==
    /\ call.fn = "main"
    /\ ~call.done
    /\ call.i < Len(call.texts)
    /\ call.i + 1 \notin call.broken
    /\ LET words == call.texts[call.i + 1]
       IN  call' = [call EXCEPT
               !.global_freq = CountAll(@, words, 1, Len(words)),
               !.total_words = @ + Len(words),
               !.bigram_freq = CountAll(@, build_ngrams(words, 2), 1, Len(words) - 1),
               !.trigram_freq = CountAll(@, build_ngrams(words, 3), 1, Len(words) - 2),
               !.docs = Append(@, [file |-> call.i + 1, words |-> words]),
               !.i = @ + 1]
    /\ UNCHANGED pipelineVars

RankSkipDocument_AsEmpty ==
    /\ call.fn = "main"
    /\ ~call.done
    /\ call.i < Len(call.texts)
    /\ call.i + 1 \in call.broken
    /\ call' = [call EXCEPT
            !.docs = Append(@, [file |-> call.i + 1, words |-> <<>>]),
            !.i = @ + 1]
    /\ UNCHANGED pipelineVars

\* lines 140-146: one document that could not be read
RankSkipDocument ==
    /\ call.fn = "main"
    /\ ~call.done
    /\ call.i < Len(call.texts)
    /\ call.i + 1 \in call.broken
    /\ call' = [call EXCEPT !.i = @ + 1]
    /\ UNCHANGED pipelineVars

\* lines 185-267: after the loop
RankDocuments ==
    /\ call.fn = "main"
    /\ ~call.done
    /\ call.i = Len(call.texts)
    /\ call' = [fn |-> "main", done |-> TRUE, texts |-> call.texts,
                broken |-> call.broken,
                ret |-> RankReport(call), code |-> 0]
    /\ UNCHANGED pipelineVars

RankNext == RankCountDocument \/ RankSkipDocument \/ RankDocuments

RankSpec == RankInit /\ [][RankNext]_vars

(***************************************************************************)
(* process.py: the extraction of one raw file.  The content is the         *)
(* sequence of its characters after decoding.                              *)
(***************************************************************************)
\* str.lower() on the characters used
lower(str) ==
    [k \in 1..Len(str) |->
        CASE str[k] = "S" -> "s" [] str[k] = "C" -> "c" [] str[k] = "R" -> "r"
          [] str[k] = "I" -> "i" [] str[k] = "P" -> "p" [] str[k] = "T" -> "t"
          [] str[k] = "H" -> "h" [] OTHER -> str[k]]

\* the characters used: the letters, which are \w, and the others
Letters ==
    {"a", "c", "d", "e", "f", "g", "h", "i", "l", "m", "o", "p", "r", "s",
     "t", "u", "v", "w", "x", "y", "C", "H", "I", "P", "R", "S", "T"}

Others == {"<", ">", "/", "=", "\"", "'", ".", "!", "?", " ", "\n"}

IsWord(c) == c \in Letters

IsSpace(c) == c \in Whitespace

\* the characters SENT_SPLIT_RE does not split at
InSentence == (Letters \cup Others) \ {".", "!", "?"}

Least(S) == CHOOSE k \in S : \A j \in S : k <= j

\* str.find(pat, from): the first place of pat at or after from, 0 for -1
Find(str, pat, from) ==
    LET hits == {k \in from..(Len(str) - Len(pat) + 1) :
                    SubSeq(str, k, k + Len(pat) - 1) = pat}
    IN  IF hits = {} THEN 0 ELSE Least(hits)

\* the maximal runs of the characters of a class, from left to right
Runs(str, class) ==
    LET starts == {k \in 1..Len(str) :
                      str[k] \in class /\ (k = 1 \/ str[k - 1] \notin class)}
        EndOf(k) == Least({e \in k..Len(str) :
                             e = Len(str) \/ str[e + 1] \notin class})
        Nth(n) == CHOOSE k \in starts :
                      Cardinality({j \in starts : j <= k}) = n
    IN  [n \in 1..Cardinality(starts) |-> SubSeq(str, Nth(n), EndOf(Nth(n)))]

\* lines 48-67
RECURSIVE remove_tag_block(_, _)
remove_tag_block(html, tag_name) ==
    LET low == lower(html)
        open_pat == <<"<">> \o tag_name
        close_pat == <<"<", "/">> \o tag_name \o <<">">>
        start == Find(low, open_pat, 1)
        end == Find(low, close_pat, start)
    IN  IF start = 0 THEN html
        ELSE IF end = 0 THEN SubSeq(html, 1, start - 1)
        ELSE remove_tag_block(
                 SubSeq(html, 1, start - 1) \o <<" ">>
                     \o SubSeq(html, end + Len(close_pat), Len(html)),
                 tag_name)

\* HREF_RE.findall / SRC_RE.findall from a place on: the attribute name in
\* either case, =, an optional quote, then the longest run of characters
\* that are no quote, space or >
RECURSIVE AttrValues(_, _, _)
AttrValues(str, attr, from) ==
    LET Stop == {"'", "\"", " ", ">"}
        ValueAt(i) == IF i + Len(attr) + 1 <= Len(str)
                         /\ str[i + Len(attr) + 1] \in {"'", "\""}
                      THEN i + Len(attr) + 2 ELSE i + Len(attr) + 1
        hits == {i \in from..(Len(str) - Len(attr) - 1) :
                    /\ lower(SubSeq(str, i, i + Len(attr) - 1)) = attr
                    /\ str[i + Len(attr)] = "="
                    /\ ValueAt(i) <= Len(str)
                    /\ str[ValueAt(i)] \notin Stop}
    IN  IF hits = {} THEN <<>>
        ELSE LET v == ValueAt(Least(hits))
                 e == Least({e \in v..Len(str) :
                                e = Len(str) \/ str[e + 1] \in Stop})
             IN  <<SubSeq(str, v, e)>> \o AttrValues(str, attr, e + 1)

\* TAG_RE.sub(repl, str) from a place on: a tag is a <, at least one
\* character that is no >, and the first > after them
RECURSIVE TAG_RE_sub(_, _, _)
TAG_RE_sub(repl, str, from) ==
    LET Closes(i) == {j \in (i + 1)..Len(str) : str[j] = ">"}
        opens == {i \in from..Len(str) :
                     /\ str[i] = "<"
                     /\ Closes(i) # {}
                     /\ Least(Closes(i)) > i + 1}
    IN  IF opens = {} THEN SubSeq(str, from, Len(str))
        ELSE SubSeq(str, from, Least(opens) - 1) \o repl
                 \o TAG_RE_sub(repl, str, Least(Closes(Least(opens))) + 1)

\* WS_RE.sub(" ", str): the first character of a run of whitespace becomes
\* a space, the others go
WS_RE_sub(str) ==
    SelectSeq([k \in 1..Len(str) |->
                  IF ~IsSpace(str[k]) THEN str[k]
                  ELSE IF k > 1 /\ IsSpace(str[k - 1]) THEN "" ELSE " "],
              LAMBDA c : c # "")

strip_html_TagsToNothing(html_content) ==
    LET stripped == remove_tag_block(remove_tag_block(html_content,
                        <<"s", "c", "r", "i", "p", "t">>),
                        <<"s", "t", "y", "l", "e">>)
    IN  [text |-> Strip(WS_RE_sub(TAG_RE_sub(<<>>, stripped, 1))),
         links |-> AttrValues(stripped, <<"h", "r", "e", "f">>, 1),
         images |-> AttrValues(stripped, <<"s", "r", "c">>, 1)]

\* lines 70-80
strip_html(html_content) ==
    LET stripped == remove_tag_block(remove_tag_block(html_content,
                        <<"s", "c", "r", "i", "p", "t">>),
                        <<"s", "t", "y", "l", "e">>)
    IN  [text |-> Strip(WS_RE_sub(TAG_RE_sub(<<" ">>, stripped, 1))),
         links |-> AttrValues(stripped, <<"h", "r", "e", "f">>, 1),
         images |-> AttrValues(stripped, <<"s", "r", "c">>, 1)]

\* lines 83-89: <p or <P with no letter behind it
count_paragraphs(html_content, extracted_text) ==
    LET p_count == Cardinality({k \in 1..(Len(html_content) - 1) :
                       /\ html_content[k] = "<"
                       /\ html_content[k + 1] \in {"p", "P"}
                       /\ \/ k + 1 = Len(html_content)
                          \/ ~IsWord(html_content[k + 2])})
    IN  IF p_count > 0 THEN p_count
        ELSE IF Strip(extracted_text) # <<>> THEN 1
        ELSE 0

\* lines 92-100: the parts between the runs of . ! ? that are not blank
sentence_count(text) ==
    LET parts == Runs(text, InSentence)
    IN  Cardinality({i \in 1..Len(parts) : Strip(parts[i]) # <<>>})

RECURSIVE TotalLength(_, _)
TotalLength(words, n) ==
    IF n = 0 THEN 0 ELSE TotalLength(words, n - 1) + Len(words[n])

\* lines 103-111
avg_word_length(words) ==
    IF Len(words) = 0 THEN Zero
    ELSE Quotient(TotalLength(words, Len(words)), Len(words))

\* lines 114-142, without the time stamp
process_one_file(html_path, html) ==
    LET stripped == strip_html(html)
        words == Runs(stripped.text, Letters)
    IN  [source_file |-> html_path[Len(html_path)],
         text |-> stripped.text,
         statistics |->
            [word_count |-> Len(words),
             sentence_count |-> sentence_count(stripped.text),
             paragraph_count |-> count_paragraphs(html, stripped.text),
             avg_word_length |-> avg_word_length(words)],
         links |-> stripped.links,
         images |-> stripped.images]

\* the pieces the raw contents are put together from
OpenScript == <<"<", "s", "c", "r", "i", "p", "t", ">">>

CloseScript == <<"<", "/", "s", "c", "r", "i", "p", "t", ">">>

OpenScriptUpper == <<"<", "S", "C", "R", "I", "P", "T", ">">>

OpenStyle == <<"<", "s", "t", "y", "l", "e", ">">>

CloseStyle == <<"<", "/", "s", "t", "y", "l", "e", ">">>

OpenP == <<"<", "p", ">">>

CloseP == <<"<", "/", "p", ">">>

Anchor == <<"<", "a", " ", "h", "r", "e", "f", "=", "\"", "u", "\"", ">">>

Image == <<"<", "i", "m", "g", " ", "s", "r", "c", "=", "v", ">">>

Blank == <<" ">>

X == <<"x">>

Hello == <<"H", "e", "l", "l", "o", " ", "w", "o", "r", "l", "d", ".">>

Fragments ==
    {OpenScript, CloseScript, OpenScriptUpper, OpenStyle, CloseStyle,
     OpenP, CloseP, Anchor, Image, Blank, X, Hello}

RoundTrip == <<OpenScript, X, CloseScript, OpenP, Hello, CloseP>>

RECURSIVE Concat(_)
Concat(pieces) ==
    IF pieces = <<>> THEN <<>> ELSE Head(pieces) \o Concat(Tail(pieces))

ExtractInit ==
    /\ NoStage
    /\ \E pieces \in SeqsUpTo(Fragments, MaxFragments) \cup {RoundTrip} :
          call = [fn |-> "process_one_file", done |-> FALSE,
                  html_path |-> <<"shared", "raw", "page_1.html">>,
                  pieces |-> pieces, html |-> Concat(pieces)]

ExtractCall ==
    /\ call.fn = "process_one_file"
    /\ ~call.done
    /\ call' = [fn |-> call.fn, done |-> TRUE, html_path |-> call.html_path,
                pieces |-> call.pieces, html |-> call.html,
                ret |-> process_one_file(call.html_path, call.html)]
    /\ UNCHANGED pipelineVars

ExtractNext == ExtractCall

ExtractSpec == ExtractInit /\ [][ExtractNext]_vars

(***************************************************************************)
(* process.py, remove_tag_block, one iteration of its loop at a time.      *)
(* `before' is the working string at the start of the last iteration and   *)
(* `start' the place found in it (0 before the first iteration).           *)
(***************************************************************************)
ScriptTag == <<"s", "c", "r", "i", "p", "t">>

\* a tag name with a space in it
SpacedTag == <<" ", "x">>

TagNames == {ScriptTag, SpacedTag}

Lt == <<"<">>

Scr == <<"<", "s", "c", "r">>

Ipt == <<"i", "p", "t", ">">>

OpenSpaced == <<"<", " ", "x">>

CloseSpaced == <<"<", "/", " ", "x", ">">>

BlockPieces ==
    {OpenScript, OpenScriptUpper, CloseScript, X, Lt, Scr, Ipt,
     OpenSpaced, CloseSpaced}

open_pat(tag_name) == <<"<">> \o tag_name

close_pat(tag_name) == <<"<", "/">> \o tag_name \o <<">">>

BlockInit ==
    /\ NoStage
    /\ \E pieces \in SeqsUpTo(BlockPieces, MaxBlockPieces) :
          \E tag_name \in TagNames :
             call = [fn |-> "remove_tag_block", done |-> FALSE,
                     input |-> Concat(pieces), tag_name |-> tag_name,
                     html |-> Concat(pieces), before |-> Concat(pieces),
                     start |-> 0, last |-> "none", removed |-> 0]

\* lines 53-55, 67: no opening occurrence is left
BlockExit ==
    /\ call.fn = "remove_tag_block"
    /\ ~call.done
    /\ Find(lower(call.html), open_pat(call.tag_name), 1) = 0
    /\ call' = [call EXCEPT !.done = TRUE, !.before = call.html,
                            !.start = 0, !.last = "exit"]
    /\ UNCHANGED pipelineVars

BlockTruncate_KeepRest ==
    /\ call.fn = "remove_tag_block"
    /\ ~call.done
    /\ LET low == lower(call.html)
           start == Find(low, open_pat(call.tag_name), 1)
       IN  /\ start # 0
           /\ Find(low, close_pat(call.tag_name), start) = 0
           /\ call' = [call EXCEPT !.done = TRUE, !.before = call.html,
                                   !.start = start, !.last = "truncated"]
    /\ UNCHANGED pipelineVars

\* lines 53-60: the opening occurrence has no closing tag behind it
BlockTruncate ==
    /\ call.fn = "remove_tag_block"
    /\ ~call.done
    /\ LET low == lower(call.html)
           start == Find(low, open_pat(call.tag_name), 1)
       IN  /\ start # 0
           /\ Find(low, close_pat(call.tag_name), start) = 0
           /\ call' = [call EXCEPT !.done = TRUE, !.before = call.html,
                                   !.start = start, !.last = "truncated",
                                   !.html = SubSeq(call.html, 1, start - 1)]
    /\ UNCHANGED pipelineVars

BlockRemove_NoSpace ==
    /\ call.fn = "remove_tag_block"
    /\ ~call.done
    /\ LET low == lower(call.html)
           start == Find(low, open_pat(call.tag_name), 1)
           end == Find(low, close_pat(call.tag_name), start)
       IN  /\ start # 0
           /\ end # 0
           /\ call' = [call EXCEPT
                   !.before = call.html, !.start = start,
                   !.last = "removed", !.removed = @ + 1,
                   !.html = SubSeq(call.html, 1, start - 1)
                       \o SubSeq(call.html,
                                 end + Len(close_pat(call.tag_name)),
                                 Len(call.html))]
    /\ UNCHANGED pipelineVars

\* lines 53-65: the block from the opening occurrence through the closing
\* tag becomes one space
BlockRemove ==
    /\ call.fn = "remove_tag_block"
    /\ ~call.done
    /\ LET low == lower(call.html)
           start == Find(low, open_pat(call.tag_name), 1)
           end == Find(low, close_pat(call.tag_name), start)
       IN  /\ start # 0
           /\ end # 0
           /\ call' = [call EXCEPT
                   !.before = call.html, !.start = start,
                   !.last = "removed", !.removed = @ + 1,
                   !.html = SubSeq(call.html, 1, start - 1) \o <<" ">>
                       \o SubSeq(call.html,
                                 end + Len(close_pat(call.tag_name)),
                                 Len(call.html))]
    /\ UNCHANGED pipelineVars

BlockNext == BlockRemove \/ BlockTruncate \/ BlockExit

BlockSpec == BlockInit /\ [][BlockNext]_vars

(***************************************************************************)
(* arxiv_processor.py, fetch_xml, one step of its loop at a time.  The     *)
(* server's answers to the requests of one call are given with the call:   *)
(* a body, an HTTPError with a code, a URLError (no code attribute) raised *)
(* by urlopen, or an error without a code raised by resp.read().  The      *)
(* append to the log is taken to succeed, as the other unguarded writes.   *)
(***************************************************************************)
\* the answers a server has ready for one call
MaxResponses == 4

\* line 94: while attempts < 3
MaxAttempts == 3

\* line 111: if code == 429
TooManyRequests == 429

\* line 116: time.sleep(3)
RetryWait == 3

\* line 117: if attempts >= 3
LastAttempt == 3

Bodies == {"", "<feed/>"}

Answers ==
    [kind : {"body"}, data : Bodies]
    \cup [kind : {"HTTPError"}, code : {404, 429}]
    \cup [kind : {"URLError", "IncompleteRead"}]

\* lines 110-111: code = getattr(e, "code", None); code == 429
IsTooManyRequests(e) ==
    "code" \in DOMAIN e.error /\ e.error.code = TooManyRequests

\* line 123
RetriesFailed == [kind |-> "RuntimeError"]

XmlInit ==
    /\ NoStage
    /\ \E responses \in [1..MaxResponses -> Answers] :
          call = [fn |-> "fetch_xml", done |-> FALSE, pc |-> "loop",
                  responses |-> responses, attempts |-> 0, requests |-> 0,
                  log |-> <<>>, slept |-> 0]

\* lines 94-110 and 123: the loop test, one request, the body returned or
\* the exception caught; RuntimeError when the loop test fails
XmlAttempt ==
    /\ call.fn = "fetch_xml" /\ ~call.done /\ call.pc = "loop"
    /\ call' =
          IF call.attempts < MaxAttempts
          THEN LET r == call.responses[call.requests + 1]
                   c == [call EXCEPT !.attempts = @ + 1, !.requests = @ + 1]
               IN  IF r.kind = "body"
                   THEN [fn |-> c.fn, done |-> TRUE, pc |-> "returned",
                         responses |-> c.responses, attempts |-> c.attempts,
                         requests |-> c.requests, log |-> c.log,
                         slept |-> c.slept, ret |-> r.data]
                   ELSE [fn |-> c.fn, done |-> FALSE, pc |-> "except",
                         responses |-> c.responses, attempts |-> c.attempts,
                         requests |-> c.requests, log |-> c.log,
                         slept |-> c.slept,
                         e |-> [attempt |-> c.attempts, error |-> r]]
          ELSE [fn |-> call.fn, done |-> TRUE, pc |-> "raised",
                responses |-> call.responses, attempts |-> call.attempts,
                requests |-> call.requests, log |-> call.log,
                slept |-> call.slept, raised |-> RetriesFailed]
    /\ UNCHANGED pipelineVars

\* lines 110-111 and 121: an exception whose code is not 429 is raised again
XmlRaise ==
    /\ call.fn = "fetch_xml" /\ ~call.done /\ call.pc = "except"
    /\ ~IsTooManyRequests(call.e)
    /\ call' = [fn |-> call.fn, done |-> TRUE, pc |-> "raised",
                responses |-> call.responses, attempts |-> call.attempts,
                requests |-> call.requests, log |-> call.log,
                slept |-> call.slept, raised |-> call.e]
    /\ UNCHANGED pipelineVars

\* lines 111-116: the log line "(attempts/3)" and the sleep
XmlWait ==
    /\ call.fn = "fetch_xml" /\ ~call.done /\ call.pc = "except"
    /\ IsTooManyRequests(call.e)
    /\ call' = [call EXCEPT !.pc = "waited",
                            !.log = Append(@, call.attempts),
                            !.slept = @ + RetryWait]
    /\ UNCHANGED pipelineVars

\* mutant: after the wait the loop goes on whatever the attempt
XmlRetry_Always ==
    /\ call.fn = "fetch_xml" /\ ~call.done /\ call.pc = "waited"
    /\ call' = [fn |-> call.fn, done |-> FALSE, pc |-> "loop",
                responses |-> call.responses, attempts |-> call.attempts,
                requests |-> call.requests, log |-> call.log,
                slept |-> call.slept]
    /\ UNCHANGED pipelineVars

\* lines 117-119: raise after the third attempt, continue before
XmlRetry ==
    /\ call.fn = "fetch_xml" /\ ~call.done /\ call.pc = "waited"
    /\ call' =
          IF call.attempts >= LastAttempt
          THEN [fn |-> call.fn, done |-> TRUE, pc |-> "raised",
                responses |-> call.responses, attempts |-> call.attempts,
                requests |-> call.requests, log |-> call.log,
                slept |-> call.slept, raised |-> call.e]
          ELSE [fn |-> call.fn, done |-> FALSE, pc |-> "loop",
                responses |-> call.responses, attempts |-> call.attempts,
                requests |-> call.requests, log |-> call.log,
                slept |-> call.slept]
    /\ UNCHANGED pipelineVars

XmlNext == XmlAttempt \/ XmlRaise \/ XmlWait \/ XmlRetry

XmlSpec == XmlInit /\ [][XmlNext]_vars

(***************************************************************************)
(* Properties.                                                             *)
(***************************************************************************)
\* the number of non-blank lines of urls.txt
InputUrlCount ==
    Cardinality({k \in 1..Len(input_file.lines) :
                    Strip(input_file.lines[k]) # <<>>})

FetchWritten == fpc = "done" /\ fetch_complete.state = "complete"

ProcWritten == ppc = "done" /\ process_complete.state = "complete"

AnaWritten == apc = "done" /\ final_report.state = "complete"

\* C1: the manifest the fetch stage writes counts every input url:
\* urls_processed is the number of non-blank lines of urls.txt, successful +
\* failed is that number, and results holds one entry per url, in order.
C1_FetchManifestCounts ==
    FetchWritten =>
        LET st == fetch_complete.status
        IN  /\ st.urls_processed = InputUrlCount
            /\ st.successful + st.failed = InputUrlCount
            /\ Len(st.results) = InputUrlCount
            /\ \A k \in 1..Len(st.results) : st.results[k].url = urls[k]
            /\ st.successful =
                 Cardinality({k \in 1..Len(st.results) :
                                 st.results[k].status = "success"})

C1_Witness ==
    /\ FetchWritten
    /\ fetch_complete.status.urls_processed = 2
    /\ fetch_complete.status.successful = 1
    /\ fetch_complete.status.failed = 1

\* the raw file whose document is <base>.json
DocOf(f) == Name(Stem(f), "json")

HasEntry(f, st) ==
    \E k \in 1..Len(p_results) :
        p_results[k].source_file = f /\ p_results[k].status = st

\* C2: after the extract stage of a pipeline run, every raw artifact it
\* scanned has either a structured document and a success entry, or a failed
\* entry and no structured document; never both, never neither.
C2_DocumentXorFailure ==
    (emptyStart /\ ProcWritten) =>
        \A f \in Range(raw_files) :
            \/ /\ processed[DocOf(f)] # "absent"
               /\ HasEntry(f, "success") /\ ~HasEntry(f, "failed")
            \/ /\ processed[DocOf(f)] = "absent"
               /\ HasEntry(f, "failed") /\ ~HasEntry(f, "success")

\* C3: a stage's completion marker exists only when every item of its batch
\* has been attempted and recorded: while the marker of a stage that runs
\* exists (in a pipeline run, for fetch), its item loop is over.
C3_MarkerAfterAllItems ==
    /\ (emptyStart /\ Exists(fetch_complete)) =>
          /\ fpc \in {"dump_manifest", "done"}
          /\ index = Len(urls)
          /\ Len(f_results) = Len(urls)
    /\ (ppc # "off" /\ Exists(process_complete)) =>
          /\ ppc \in {"dump_fatal", "dump_manifest", "done"}
          /\ p_i = Len(raw_files)
          /\ Len(p_results) = Len(raw_files)
          /\ Range(raw_files) \subseteq
                {p_results[k].source_file : k \in 1..Len(p_results)}

C3_Witness ==
    /\ emptyStart
    /\ Exists(fetch_complete) /\ Exists(process_complete)
    /\ Len(urls) = 2 /\ Len(raw_files) = 2

\* C4: a consumer whose existence check on the marker succeeds finds the
\* complete manifest, never a partially written one.
C4_ObservedManifestComplete ==
    /\ p_observed \in {"none", "complete"}
    /\ a_observed \in {"none", "complete"}

ProcScanned == ppc \in {"loop", "open_doc", "dump_doc", "dump_manifest", "done"}

AnaScanned == apc \in {"loop", "dump_report", "done"}

\* C5: in a pipeline run on an empty area a stage scans its input directory
\* after the upstream stage's last write into it: what extract scanned is the
\* set of raw artifacts fetch has written, and fetch writes no more; what
\* analyze scanned is the set of documents extract has written, and extract
\* writes no more.
C5_ScanAfterLastWrite ==
    emptyStart =>
        /\ ProcScanned =>
              /\ fpc \in {"dump_manifest", "done"}
              /\ Range(raw_files) = {n \in RawNames : raw[n] # "absent"}
        /\ AnaScanned =>
              /\ ppc \in {"dump_manifest", "done"}
              /\ Range(files) = {n \in DocNames : processed[n] # "absent"}

C5_Witness ==
    /\ emptyStart
    /\ apc = "done"
    /\ Len(raw_files) = 2
    /\ Len(files) = 2

FetchEnded == fpc \in {"done", "crashed"}

\* C6 as claimed: a stage that has ended has written its terminal artifact.
C6_EndedStageHasArtifact ==
    /\ FetchEnded => fetch_complete.state = "complete"
    /\ ppc = "done" => process_complete.state = "complete"
    /\ apc = "done" => final_report.state = "complete"

\* C6: a stage that left its wait loop and whose output directories were
\* created can always take its next step until it returns, and when it has
\* returned its terminal artifact is written, with the error field in the
\* missing-upstream-directory case; a fetch stage that cannot create an output
\* directory ends with exit code 1 before any url and writes no manifest.
C6_ReturnedStageHasArtifact ==
    /\ fpc \in {"mkdir_raw", "mkdir_status", "loop", "open_output",
                "write_output", "dump_manifest"} => ENABLED FetchNext
    /\ ppc \notin {"off", "wait", "done"} => ENABLED ProcNext
    /\ apc \notin {"off", "wait", "done"} => ENABLED AnaNext
    /\ fpc = "done" => FetchWritten /\ f_exit = 0
    /\ fpc = "crashed" =>
          /\ f_exit = 1 /\ attempts = <<>>
          /\ emptyStart => ~Exists(fetch_complete)
    /\ ppc = "done" =>
          /\ ProcWritten
          /\ p_exit = 1 <=> "error" \in DOMAIN process_complete.status
    /\ apc = "done" =>
          /\ AnaWritten
          /\ a_exit = 1 <=> "error" \in DOMAIN final_report.status

C6_Witness ==
    /\ ppc = "done" /\ p_exit = 1
    /\ "error" \in DOMAIN process_complete.status
    /\ apc = "done"

C8_MissingRawDirIsFatal ==
    (ppc \notin {"off", "wait", "mkdirs", "check_raw"} /\ "raw" \notin dirs) =>
        /\ ppc \in {"open_fatal", "dump_fatal", "done"}
        /\ raw_files = <<>> /\ p_i = 0 /\ p_results = <<>>
        /\ processed = NoDocs
        /\ ppc = "done" =>
              /\ process_complete.state = "complete"
              /\ "error" \in DOMAIN process_complete.status
              /\ process_complete.status.files_processed = 0
              /\ process_complete.status.successful = 0
              /\ process_complete.status.failed = 0
              /\ process_complete.status.results = <<>>
              /\ p_exit # 0

C8_Witness ==
    /\ ppc = "done"
    /\ "raw" \notin dirs
    /\ p_exit = 1

\* no file of /shared/raw is named *.html, in any letter case
NoArtifactInRaw ==
    \A n \in RawNames : raw[n] # "absent" => Ext(n) \notin {"html", "HTML"}

\* C9: when the raw directory exists and holds no file with the artifact
\* suffix, the extract stage writes a manifest with zero counts, empty results
\* and no error field, and returns 0.
C9_EmptyRawDirIsNormal ==
    (ppc = "done" /\ "raw" \in dirs /\ NoArtifactInRaw) =>
        /\ process_complete.state = "complete"
        /\ process_complete.status =
              [files_processed |-> 0, successful |-> 0, failed |-> 0,
               results |-> <<>>]
        /\ p_exit = 0

C9_Witness ==
    /\ ppc = "done"
    /\ "raw" \in dirs
    /\ raw[Name(1, "txt")] = "complete"
    /\ NoArtifactInRaw

\* C10: the fetch stage calls urlopen once per url, in input order; every
\* finished attempt has its one entry, a failed one with file None and the
\* cause; and the stage that has reached its manifest has attempted them all.
C10_EachUrlAttemptedOnce ==
    /\ \A k \in 1..Len(attempts) : attempts[k] = k
    /\ Len(attempts) \in {index, index + 1}
    /\ Len(attempts) = index + 1 <=> fpc \in {"open_output", "write_output"}
    /\ Len(f_results) = index
    /\ \A k \in 1..Len(f_results) :
          /\ f_results[k].url = urls[k]
          /\ f_results[k].status \in {"success", "failed"}
          /\ f_results[k].status = "failed" =>
                /\ f_results[k].file = None
                /\ f_results[k].error \in {"urlopen", "open", "write"}
    /\ fpc \in {"dump_manifest", "done"} => Len(attempts) = Len(urls)

C10_Witness ==
    /\ fpc = "done"
    /\ Len(attempts) = 2
    /\ f_results[1].status = "failed"
    /\ f_results[2].status = "success"

\* C11 as claimed: a stage ends with a non-zero code exactly when its
\* upstream directory is missing.
C11_ExitCodeOnlyByUpstreamDir ==
    /\ FetchEnded => f_exit = 0
    /\ ppc = "done" => (p_exit = 0 <=> "raw" \in dirs)
    /\ apc = "done" => (a_exit = 0 <=> "processed" \in dirs)

\* C11: no per-item outcome changes a completion code: a stage that returns
\* from main() returns 0 when its upstream directory exists and 1 when it is
\* missing, whatever its items did; the only other non-zero end is the fetch
\* stage dying in os.makedirs, before its first url.
C11_ExitCodeIgnoresItemOutcomes ==
    /\ fpc = "done" => f_exit = 0
    /\ fpc = "crashed" => f_exit = 1 /\ attempts = <<>> /\ f_results = <<>>
    /\ fpc \notin {"done", "crashed"} => f_exit = -1
    /\ ppc = "done" => p_exit = (IF "raw" \in dirs THEN 0 ELSE 1)
    /\ ppc # "done" => p_exit = -1
    /\ apc = "done" => a_exit = (IF "processed" \in dirs THEN 0 ELSE 1)
    /\ apc # "done" => a_exit = -1

C11_Witness ==
    /\ fpc = "done" /\ fail_count > 0 /\ f_exit = 0
    /\ ppc = "done" /\ bad > 0 /\ p_exit = 0
    /\ apc = "done" /\ Len(docs) < Len(files) /\ a_exit = 0

\* C12: when the structured-document directory is missing after the analyze
\* stage's wait, the stage reads no document, writes a report whose counts
\* and readability values are zero and whose lists are empty, with an error
\* field, and returns a non-zero code.
C12_MissingProcessedDirIsFatal ==
    (apc \notin {"off", "wait", "mkdirs", "check_processed"}
        /\ "processed" \notin dirs) =>
        /\ apc \in {"open_fatal", "dump_fatal", "done"}
        /\ files = <<>> /\ a_i = 0 /\ docs = <<>>
        /\ apc = "done" =>
              LET rep == final_report.status
              IN  /\ final_report.state = "complete"
                  /\ rep.documents_processed = 0
                  /\ rep.total_words = 0
                  /\ rep.unique_words = 0
                  /\ rep.top_100_words = <<>>
                  /\ rep.document_similarity = <<>>
                  /\ rep.top_bigrams = <<>>
                  /\ rep.top_trigrams = <<>>
                  /\ rep.readability.avg_sentence_length = 0
                  /\ rep.readability.avg_word_length = 0
                  /\ rep.readability.complexity_score = 0
                  /\ "error" \in DOMAIN rep
                  /\ a_exit # 0

C12_Witness ==
    /\ apc = "done"
    /\ "processed" \notin dirs
    /\ a_exit = 1

\* C17: after the fetch stage of a pipeline run, page_<i>.html exists exactly
\* when the i-th entry of the manifest is a success; a success entry names
\* page_<i>.html and a failed entry names no file.
C17_ArtifactIffSuccess ==
    (emptyStart /\ FetchWritten) =>
        LET res == fetch_complete.status.results
        IN  /\ \A n \in RawNames :
                  raw[n] # "absent" =>
                      Ext(n) = "html" /\ Stem(n) \in 1..Len(res)
            /\ \A i \in 1..Len(res) :
                  /\ raw[Name(i, "html")] # "absent" <=>
                        res[i].status = "success"
                  /\ res[i].status = "success" => res[i].file = Name(i, "html")
                  /\ res[i].status = "failed" => res[i].file = None

FetchDirs ==
    {d \in {"raw"} : \E n \in RawNames : raw[n] # "absent"}
    \cup {d \in {"status"} : Exists(fetch_complete)}

ExtractDirs ==
    {d \in {"processed"} : \E n \in DocNames : processed[n] # "absent"}
    \cup {d \in {"status"} : Exists(process_complete)}

AnalyzeDirs == {d \in {"analysis"} : Exists(final_report)}

\* C18 as claimed: in a pipeline run the directories that hold files of
\* fetch, of extract and of analyze are pairwise disjoint.
C18_DisjointOutputDirs ==
    emptyStart =>
        /\ FetchDirs \cap ExtractDirs = {}
        /\ FetchDirs \cap AnalyzeDirs = {}
        /\ ExtractDirs \cap AnalyzeDirs = {}

\* C18: every file has one writing stage: the raw artifacts and
\* fetch_complete.json change only in steps of fetch, the documents and
\* process_complete.json only in steps of extract, the report only in steps
\* of analyze, and no stage writes urls.txt; /shared/raw, /shared/processed
\* and /shared/analysis have one writing stage each (/shared/status has two).
C18_OneWriterPerFile ==
    [][ /\ (raw' # raw \/ fetch_complete' # fetch_complete) =>
              fetchVars' # fetchVars /\ UNCHANGED <<procVars, anaVars>>
        /\ (processed' # processed \/ process_complete' # process_complete) =>
              procVars' # procVars /\ UNCHANGED <<fetchVars, anaVars>>
        /\ final_report' # final_report =>
              anaVars' # anaVars /\ UNCHANGED <<fetchVars, procVars>>
        /\ input_file' # input_file =>
              UNCHANGED <<fetchVars, procVars, anaVars>>
      ]_vars

C18_Witness ==
    /\ emptyStart
    /\ FetchDirs = {"raw", "status"}
    /\ ExtractDirs = {"processed", "status"}
    /\ AnalyzeDirs = {"analysis"}

C20_NoWorkWhileWaiting ==
    /\ ppc = "wait" =>
          /\ "processed" \notin dirs
          /\ processed = NoDocs
          /\ ~Exists(process_complete)
          /\ raw_files = <<>> /\ p_i = 0 /\ p_results = <<>>
          /\ ok = 0 /\ bad = 0
    /\ ppc \notin {"off", "wait"} => p_observed \in {"partial", "complete"}
    /\ apc = "wait" =>
          /\ "analysis" \notin dirs
          /\ ~Exists(final_report)
          /\ files = <<>> /\ a_i = 0 /\ docs = <<>>
    /\ apc \notin {"off", "wait"} => a_observed \in {"partial", "complete"}

C20_Witness ==
    /\ fpc = "write_output"
    /\ index = 1
    /\ ppc = "wait"
    /\ apc = "wait"

\* C13: the similarity of two token lists is the same in both orders of the
\* arguments, lies in [0, 1], is the size of the intersection of the two
\* token sets over the size of their union (1/2 for a b c against b c d),
\* and the similarity of a list with itself is 1, or 0 for the empty list.
C13_JaccardSimilarity ==
    (call.fn = "jaccard_similarity" /\ call.done) =>
        LET A == call.doc1_words
            B == call.doc2_words
            both == Range(A) \cap Range(B)
            any == Range(A) \cup Range(B)
            sim == call.ret
        IN  /\ sim = jaccard_similarity(B, A)
            /\ sim.den > 0 /\ 0 <= sim.num /\ sim.num <= sim.den
            /\ any # {} =>
                  sim.num * Cardinality(any) = sim.den * Cardinality(both)
            /\ (A = <<"a", "b", "c">> /\ B = <<"b", "c", "d">>) =>
                  sim = [num |-> 1, den |-> 2]
            /\ A = B => sim = IF Len(A) > 0 THEN One ELSE Zero

C13_Witness ==
    /\ call.fn = "jaccard_similarity" /\ call.done
    /\ call.doc1_words = <<"a", "b", "c">>
    /\ call.doc2_words = <<"b", "c", "d">>
    /\ call.ret = [num |-> 1, den |-> 2]

\* the terms whose occurrences a list of the report counts, document by
\* document: the words themselves, or the joined windows of n words
TermsOf(texts, n) ==
    [d \in 1..Len(texts) |->
        [i \in 1..(Len(texts[d]) - n + 1) |->
            Join(SubSeq(texts[d], i, i + n - 1))]]

Occurrences(terms, t) ==
    Cardinality({<<d, i>> \in UNION {{d} \X (1..Len(terms[d])) :
                                        d \in 1..Len(terms)} :
                    terms[d][i] = t})

\* list (of the terms `term' and the counts `count') is the first K of the
\* terms by descending number of occurrences, equal numbers by ascending
\* term
IsRanking(term, count, terms, K) ==
    LET all == UNION {Range(terms[d]) : d \in 1..Len(terms)}
        n == Len(term)
        Before(t, c, u, e) == c > e \/ (c = e /\ StrLess(t, u))
    IN  /\ n = Len(count)
        /\ n = Min(K, Cardinality(all))
        /\ \A k \in 1..n :
              /\ term[k] \in all
              /\ count[k] = Occurrences(terms, term[k])
        /\ \A k \in 1..(n - 1) :
              Before(term[k], count[k], term[k + 1], count[k + 1])
        /\ \A u \in all \ Range(term) :
              Before(term[n], count[n], u, Occurrences(terms, u))

\* C14: the word list, the bigram list and the trigram list of the report
\* are the first 100, 50 and 50 terms by descending count, ties by ascending
\* term: a function of the numbers of occurrences alone, whatever the order
\* the terms came into the maps.
C14_TopListsRanked ==
    (call.fn = "main" /\ call.done) =>
        LET r == call.ret
        IN  /\ IsRanking([k \in 1..Len(r.top_100_words) |-> r.top_100_words[k].word],
                         [k \in 1..Len(r.top_100_words) |-> r.top_100_words[k].count],
                         TermsOf(call.texts, 1), 100)
            /\ IsRanking([k \in 1..Len(r.top_bigrams) |-> r.top_bigrams[k].bigram],
                         [k \in 1..Len(r.top_bigrams) |-> r.top_bigrams[k].count],
                         TermsOf(call.texts, 2), 50)
            /\ IsRanking([k \in 1..Len(r.top_trigrams) |-> r.top_trigrams[k].trigram],
                         [k \in 1..Len(r.top_trigrams) |-> r.top_trigrams[k].count],
                         TermsOf(call.texts, 3), 50)

\* a report whose three lists are full and leave terms out, with equal
\* counts next to each other that came into the map in descending order
C14_Witness ==
    /\ call.fn = "main" /\ call.done
    /\ call.ret.unique_words > 100
    /\ Len(call.ret.top_100_words) = 100
    /\ Len(call.ret.top_bigrams) = 50
    /\ Len(call.ret.top_trigrams) = 50
    /\ call.ret.top_100_words[1].count = 3
    /\ call.ret.top_100_words[3].count = call.ret.top_100_words[4].count

\* the number of documents that hold the word at least once
DocumentFrequency(texts, w) ==
    Cardinality({d \in 1..Len(texts) : w \in Range(texts[d])})

\* C15: every entry of the word list of the report carries the count of the
\* word and, next to it, the document frequency of the word, the number of
\* analyzed documents that hold the word.
C15_EntriesCarryDocumentFrequency ==
    (call.fn = "main" /\ call.done) =>
        \A k \in 1..Len(call.ret.top_100_words) :
            LET entry == call.ret.top_100_words[k]
            IN  /\ entry.count = Occurrences(TermsOf(call.texts, 1), entry.word)
                /\ \E field \in DOMAIN entry \ {"word", "count"} :
                      entry[field] =
                          [num |-> DocumentFrequency(call.texts, entry.word),
                           den |-> 1]

\* what a reader of the markup takes a piece for: after an opening script
\* (style) tag everything up to the next closing script (style) tag is the
\* content of the block
RECURSIVE ModeAfter(_, _)
ModeAfter(pieces, k) ==
    IF k = 0 THEN "normal"
    ELSE LET before == ModeAfter(pieces, k - 1)
         IN  CASE before = "normal" /\ pieces[k] \in {OpenScript, OpenScriptUpper}
                    -> "script"
               [] before = "normal" /\ pieces[k] = OpenStyle -> "style"
               [] before = "script" /\ pieces[k] = CloseScript -> "normal"
               [] before = "style" /\ pieces[k] = CloseStyle -> "normal"
               [] OTHER -> before

\* the places of the pieces of text outside the blocks
TextOutsideBlocks(pieces) ==
    {k \in 1..Len(pieces) :
        pieces[k] \in {X, Hello} /\ ModeAfter(pieces, k - 1) = "normal"}

Squeeze(str) == SelectSeq(str, LAMBDA c : c # " ")

\* the pieces at the places S, in their order, without the spaces
Picked(pieces, S) ==
    LET Nth(n) == CHOOSE k \in S : Cardinality({j \in S : j <= k}) = n
    IN  Squeeze(Concat([n \in 1..Cardinality(S) |-> pieces[Nth(n)]]))

\* the pieces of text of a content without blocks, one space wherever tags
\* or blanks stand between two of them
RECURSIVE Glue(_, _, _, _)
Glue(pieces, k, text, apart) ==
    IF k > Len(pieces) THEN text
    ELSE IF pieces[k] \notin {X, Hello} THEN Glue(pieces, k + 1, text, TRUE)
    ELSE IF text = <<>> THEN Glue(pieces, k + 1, pieces[k], FALSE)
    ELSE IF apart THEN Glue(pieces, k + 1, text \o <<" ">> \o pieces[k], FALSE)
    ELSE Glue(pieces, k + 1, text \o pieces[k], FALSE)

ReadFiles(c) ==
    LET good == {d \in 1..Len(c.texts) : d \notin c.broken}
        Nth(n) == CHOOSE d \in good : Cardinality({e \in good : e <= d}) = n
    IN  [n \in 1..Cardinality(good) |-> Nth(n)]

\* C21: for D documents read the similarity list holds D*(D-1)/2 records,
\* the one of the pair (i, j), i < j, at the place its row-major order
\* gives it, naming the i-th and the j-th file read; no record for i = j or
\* i > j, and none names a file that could not be read.
C21_SimilarityPairs ==
    (call.fn = "main" /\ call.done) =>
        LET read == ReadFiles(call)
            D == Len(read)
            sim == call.ret.document_similarity
            Place(i, j) == (i - 1) * D - ((i * (i - 1)) \div 2) + (j - i)
        IN  /\ 2 * Len(sim) = D * (D - 1)
            /\ \A i \in 1..D : \A j \in (i + 1)..D :
                  /\ sim[Place(i, j)].doc1 = read[i]
                  /\ sim[Place(i, j)].doc2 = read[j]
            /\ \A k \in 1..Len(sim) :
                  /\ sim[k].doc1 < sim[k].doc2
                  /\ {sim[k].doc1, sim[k].doc2} \cap call.broken = {}

\* four files, the second unreadable: the pairs of files 1, 3 and 4
C21_Witness ==
    /\ call.fn = "main" /\ call.done
    /\ Len(call.texts) = 4
    /\ call.broken = {2}
    /\ Len(call.ret.document_similarity) = 3
    /\ call.ret.document_similarity[2].doc1 = 1
    /\ call.ret.document_similarity[2].doc2 = 4

\* the sum of the counts of the items from..to of a map
RECURSIVE SumCounts(_, _, _)
SumCounts(d, from, to) ==
    IF from > to THEN 0
    ELSE IF from = to THEN d[from][2]
    ELSE SumCounts(d, from, (from + to) \div 2)
             + SumCounts(d, ((from + to) \div 2) + 1, to)

\* the windows of n words of the documents read so far: document and place
WindowsSoFar(c, n) ==
    UNION {{d} \X (1..(Len(c.texts[d]) - n + 1)) :
              d \in (1..c.i) \ c.broken}

\* C22: a document of L words has max(0, L - n + 1) n-grams, the k-th made
\* of its words k..k+n-1 joined by single spaces; and the counts of the
\* bigram (trigram) map add up to the number of windows of 2 (3) words
\* inside the documents read so far, none of them across two documents.
C22_NgramWindows ==
    call.fn = "main" =>
        /\ \A d \in 1..Len(call.texts) :
              LET w == call.texts[d]
                  two == build_ngrams(w, 2)
                  three == build_ngrams(w, 3)
              IN  /\ Len(two) = IF Len(w) > 1 THEN Len(w) - 1 ELSE 0
                  /\ Len(three) = IF Len(w) > 2 THEN Len(w) - 2 ELSE 0
                  /\ \A k \in 1..Len(two) :
                        two[k] = w[k] \o <<" ">> \o w[k + 1]
                  /\ \A k \in 1..Len(three) :
                        three[k] = w[k] \o <<" ">> \o w[k + 1]
                                       \o <<" ">> \o w[k + 2]
        /\ ~call.done =>
              /\ SumCounts(call.bigram_freq, 1, Len(call.bigram_freq))
                    = Cardinality(WindowsSoFar(call, 2))
              /\ SumCounts(call.trigram_freq, 1, Len(call.trigram_freq))
                    = Cardinality(WindowsSoFar(call, 3))

\* two documents of three and two words are counted: three bigrams and one
\* trigram, "a b" once, not again from the last word of the first document
\* and the first word of the second
C22_Witness ==
    /\ call.fn = "main" /\ ~call.done
    /\ call.texts = << <<<<"a">>, <<"b">>, <<"a">>>>, <<<<"b">>, <<"a">>>> >>
    /\ call.i = 2
    /\ SumCounts(call.bigram_freq, 1, Len(call.bigram_freq)) = 3
    /\ SumCounts(call.trigram_freq, 1, Len(call.trigram_freq)) = 1
    /\ \E k \in 1..Len(call.bigram_freq) :
          call.bigram_freq[k] = <<(<<"a", " ", "b">>), 1>>

\* pat stands in str at place k
Occurs(str, pat, k) ==
    /\ k >= 1
    /\ k + Len(pat) - 1 <= Len(str)
    /\ \A m \in 1..Len(pat) : str[k + m - 1] = pat[m]

OpeningsIn(str, tag_name) ==
    {k \in 1..Len(str) : Occurs(lower(str), <<"<">> \o tag_name, k)}

ClosingsIn(str, tag_name) ==
    {k \in 1..Len(str) :
        Occurs(lower(str), <<"<", "/">> \o tag_name \o <<">">>, k)}

OpeningAcrossJoint ==
    \E k \in OpeningsIn(call.html, call.tag_name) :
        k <= call.start /\ call.start <= k + Len(call.tag_name)

C27_UnreadableDocumentSkipped ==
    call.fn = "main" =>
        /\ ~call.done =>
              /\ Len(call.docs) = Cardinality((1..call.i) \ call.broken)
              /\ \A k \in 1..Len(call.docs) :
                    call.docs[k].file \notin call.broken
              /\ call.total_words = Cardinality(WindowsSoFar(call, 1))
              /\ SumCounts(call.global_freq, 1, Len(call.global_freq))
                    = call.total_words
        /\ call.done =>
              LET all == [texts |-> call.texts, broken |-> call.broken,
                          i |-> Len(call.texts)]
              IN  /\ call.code = 0
                  /\ "error" \notin DOMAIN call.ret
                  /\ call.ret.documents_processed
                        = Len(call.texts) - Cardinality(call.broken)
                  /\ call.ret.total_words = Cardinality(WindowsSoFar(all, 1))
                  /\ \A k \in 1..Len(call.ret.document_similarity) :
                        /\ call.ret.document_similarity[k].doc1
                              \notin call.broken
                        /\ call.ret.document_similarity[k].doc2
                              \notin call.broken

\* three files, the second unreadable, words in the third
C27_Witness ==
    /\ call.fn = "main" /\ call.done
    /\ Len(call.texts) = 3
    /\ call.broken = {2}
    /\ call.ret.documents_processed = 2
    /\ call.ret.total_words = 2
    /\ Len(call.texts[3]) = 2
    /\ call.code = 0

\* ascending in str order, no name twice
Ascending(names) ==
    \A k \in 1..(Len(names) - 1) : NameLess(names[k], names[k + 1])

\* the entries of s that are in S, in the order of s
Among(s, S) == SelectSeq(s, LAMBDA x : x \in S)

\* C24: a stage handles its items one at a time in a fixed order.  The
\* entries of the fetch manifest follow the lines of urls.txt and request k+1
\* is made only when k outcomes are recorded; the raw files are listed in
\* ascending order of their names, entry k of the extract manifest is about
\* the k-th of them, and a document is being written only while a listed file
\* has no entry yet; the documents are listed in ascending order and the
\* analyzer has read, in that order, documents among the first a_i of them.
C24_OneAtATimeInOrder ==
    /\ \A k \in 1..Len(f_results) : f_results[k].url = urls[k]
    /\ \A k \in 1..Len(attempts) : attempts[k] = k
    /\ Len(attempts) <= Len(f_results) + 1
    /\ Len(f_results) <= Len(urls)
    /\ Ascending(raw_files)
    /\ Len(p_results) = p_i
    /\ p_i <= Len(raw_files)
    /\ \A k \in 1..Len(p_results) : p_results[k].source_file = raw_files[k]
    /\ ppc \in {"open_doc", "dump_doc"} => p_i < Len(raw_files)
    /\ Ascending(files)
    /\ a_i <= Len(files)
    /\ docs = Among(SubSeq(files, 1, a_i), Range(docs))

\* two pages fetched, two raw files extracted and two documents read
C24_Witness ==
    /\ fpc = "done" /\ ppc = "done" /\ apc = "done"
    /\ Len(f_results) = 2 /\ f_results[1].url # f_results[2].url
    /\ Len(p_results) = 2
    /\ p_results[1].source_file = Name(1, "html")
    /\ p_results[2].source_file = Name(2, "html")
    /\ docs = <<Name(1, "json"), Name(2, "json")>>

\* the names in a directory whose lower-cased name ends in the suffix
Present(dir, suffix) ==
    {n \in DOMAIN dir : dir[n] # "absent" /\ Lower(Ext(n)) = suffix}

\* C25: what a downstream stage works on is given by the directory it lists
\* and by nothing in the upstream manifest.  Over all runs, those on a
\* manifest that disagrees with the directory beside it included: the files
\* the extract stage has listed are the .html names present in the raw
\* directory in ascending order, its manifest counts and names exactly those,
\* and a success entry names <base>.json; the files the analyze stage has
\* listed are the .json names present in the structured-document directory
\* in ascending order, and the documents of its report are among them.  Two
\* runs on the same directory therefore list the same items in the same
\* order whatever the manifests hold.
C25_ItemsFromDirectoryOnly ==
    /\ ProcScanned =>
          /\ Ascending(raw_files)
          /\ Range(raw_files) = Present(raw, "html")
    /\ ProcWritten =>
          LET st == process_complete.status
          IN  /\ st.files_processed = Cardinality(Present(raw, "html"))
              /\ Len(st.results) = st.files_processed
              /\ \A k \in 1..Len(st.results) :
                    /\ st.results[k].source_file = raw_files[k]
                    /\ st.results[k].status = "success" =>
                          st.results[k].output_file
                             = Name(Stem(raw_files[k]), "json")
    /\ AnaScanned =>
          /\ Ascending(files)
          /\ Range(files) = Present(processed, "json")
          /\ Range(docs) \subseteq Present(processed, "json")
    /\ (AnaWritten /\ "error" \notin DOMAIN final_report.status) =>
          final_report.status.documents_processed = Len(docs)

\* a rerun on a fetch manifest that names page_2.html only, beside a raw
\* directory that holds page_1.html and page_2.html: both are extracted
C25_Witness ==
    /\ fetch_complete = StaleFetchManifest
    /\ ProcWritten
    /\ raw_files = <<Name(1, "html"), Name(2, "html")>>
    /\ process_complete.status.files_processed = 2
    /\ AnaWritten
    /\ files = <<Name(1, "json"), Name(2, "json")>>

ProcFatal == ppc \in {"open_fatal", "dump_fatal"} \/ p_exit = 1

AnaFatal == apc \in {"open_fatal", "dump_fatal"} \/ a_exit = 1

\* C26: in a pipeline run on an empty area no stage takes its fatal branch.
\* The raw directory is there whenever fetch_complete.json is, so the extract
\* stage is past its wait only beside a raw directory and never in its fatal
\* branch; and in every run in which the extract stage is past its
\* makedirs, its fatal branch included, the structured-document directory
\* is there, so the analyze stage of such a run is never in its fatal branch.
C26_FatalBranchesUnreachable ==
    /\ emptyStart =>
          /\ Exists(fetch_complete) => "raw" \in dirs
          /\ ppc \notin {"wait"} => "raw" \in dirs
          /\ ~ProcFatal
          /\ ~AnaFatal
    /\ ppc \notin {"off", "wait", "mkdirs"} =>
          /\ "processed" \in dirs
          /\ ~AnaFatal
    /\ (ppc # "off" /\ Exists(process_complete)) => "processed" \in dirs

\* a pipeline run with no url to fetch: the directories are made all the
\* same and the three stages return 0
C26_Witness ==
    /\ emptyStart
    /\ fpc = "done" /\ ppc = "done" /\ apc = "done"
    /\ urls = <<>>
    /\ {"raw", "processed"} \subseteq dirs
    /\ f_exit = 0 /\ p_exit = 0 /\ a_exit = 0

\* the answers to the requests made so far
Seen(c) == SubSeq(c.responses, 1, c.requests)

Is429(r) == r.kind = "HTTPError" /\ r.code = 429

\* C29: a call of fetch_xml makes at most 3 requests.  Every request but the
\* latest was answered by an HTTPError 429, and each of those was followed
\* by one log line and a wait of 3 before the next request.  The call
\* returns the body of the first request that is answered by a body; an
\* answer that is a failure other than 429 is raised at once, as the failure
\* of that attempt; a 429 is raised only as the failure of the third
\* attempt, after three 429s; RuntimeError is never raised.
C29_FetchXmlRetries ==
    call.fn = "fetch_xml" =>
        LET seen == Seen(call)
            n == call.requests
        IN  /\ n <= 3
            /\ n = call.attempts
            /\ \A k \in 1..(n - 1) : Is429(seen[k])
            /\ call.pc = "loop" =>
                  /\ call.log = [k \in 1..n |-> k]
                  /\ call.slept = 3 * n
                  /\ n < 3
            /\ Len(call.log) \in {n - 1, n}
            /\ call.slept = 3 * Len(call.log)
            /\ call.done =>
                  /\ n >= 1
                  /\ call.pc = "returned" <=> seen[n].kind = "body"
                  /\ call.pc = "returned" =>
                        /\ call.ret = seen[n].data
                        /\ Len(call.log) = n - 1
                  /\ call.pc = "raised" =>
                        /\ call.raised # RetriesFailed
                        /\ call.raised = [attempt |-> n, error |-> seen[n]]
                        /\ Is429(seen[n]) <=> n = 3 /\ Len(call.log) = 3
                        /\ ~Is429(seen[n]) => Len(call.log) = n - 1

\* three requests, each answered by 429: three log lines, a wait of 9 and
\* the failure of the third attempt raised
C29_Witness ==
    /\ call.fn = "fetch_xml" /\ call.done
    /\ call.requests = 3
    /\ \A k \in 1..3 : Is429(call.responses[k])
    /\ call.log = <<1, 2, 3>>
    /\ call.slept = 9
    /\ call.pc = "raised"
    /\ call.raised.attempt = 3

====
